---- MODULE Spec2Model ----
(***************************************************************************)
(* Model of the Bitcoin ordinal holder indexer: the file manager service   *)
(* (snapshot writer, latest-file reader and chunk merger) and the data     *)
(* processor (holder summary, cross-source union, threshold filter).       *)
(*                                                                         *)
(* File names are sequences of one-character strings, ordered by their     *)
(* UTF-16 code units as Array.prototype.sort() orders them.  JSON text is  *)
(* a sequence of tokens; values in memory are tagged records.              *)
(***************************************************************************)
EXTENDS Integers, Sequences, FiniteSets, TLC

VARIABLES
  dir,      \* TRUE when the data directory exists
  files,    \* the data directory: file name |-> JSON text
  clock,    \* the last instant read from the system clock
  op,       \* the operation that ran last
  arg,      \* its argument (or the map it built in memory)
  ret,      \* its result: a return value or the error thrown
  trace,    \* its file writes, in order: the name and whether the write succeeded
  before,   \* the directory as it was when the operation began
  saved,    \* the last call of a writer: its name, argument, result and writes
  mem       \* what the last data processor call read and built in memory

vars == <<dir, files, clock, op, arg, ret, trace, before, saved, mem>>

(***************************************************************************)
(* Bounds of the model                                                     *)
(***************************************************************************)
\* The clock reads instants FirstInstant..LastInstant, milliseconds of one
\* second; MaxClock is the number of milliseconds it may advance.
FirstInstant == 8
MaxClock == 1
\* Largest directory whose listing is enumerated in every order.
MaxListed == 3
\* Chunk writes that may fail in one call.
MaxFailures == 1
\* Stand-in for maxSize = 50 * 1024 * 1024 (file manager, line 451), scaled
\* down so that holder maps of a few wallets reach it.
maxSize == 1500
\* Stand-in for the wallet count limit 100000 (file manager, line 453).
MaxWalletCount == 3

(***************************************************************************)
(* JavaScript strings                                                      *)
(***************************************************************************)
x10 == "xxxxxxxxxx"
x100 == x10 \o x10 \o x10 \o x10 \o x10 \o x10 \o x10 \o x10 \o x10 \o x10
x900 == x100 \o x100 \o x100 \o x100 \o x100 \o x100 \o x100 \o x100 \o x100
\* A 999 character identifier and a 1000 character identifier.
Long999 == x900 \o x10 \o x10 \o x10 \o x10 \o x10 \o x10 \o x10 \o x10 \o x10 \o "xxxxxxxxx"
Long1000 == x900 \o x100

\* String.prototype.trim on the strings of the model.
Trim(s) ==
  CASE s = " " -> ""
    [] s = "  " -> ""
    [] s = " w1 " -> "w1"
    [] OTHER -> s

(***************************************************************************)
(* File names: sequences of characters                                     *)
(***************************************************************************)
Ascii ==
  ("-" :> 45) @@ ("." :> 46) @@
  ("0" :> 48) @@ ("1" :> 49) @@ ("2" :> 50) @@ ("3" :> 51) @@ ("4" :> 52) @@
  ("5" :> 53) @@ ("6" :> 54) @@ ("7" :> 55) @@ ("8" :> 56) @@ ("9" :> 57) @@
  ("F" :> 70) @@ ("L" :> 76) @@ ("R" :> 82) @@ ("S" :> 83) @@ ("T" :> 84) @@
  ("Z" :> 90) @@
  ("a" :> 97) @@ ("b" :> 98) @@ ("c" :> 99) @@ ("d" :> 100) @@ ("e" :> 101) @@
  ("h" :> 104) @@ ("i" :> 105) @@ ("j" :> 106) @@ ("k" :> 107) @@
  ("l" :> 108) @@ ("m" :> 109) @@ ("n" :> 110) @@ ("o" :> 111) @@
  ("p" :> 112) @@ ("r" :> 114) @@ ("s" :> 115) @@ ("t" :> 116) @@
  ("u" :> 117) @@ ("y" :> 121)

Digits == <<"0", "1", "2", "3", "4", "5", "6", "7", "8", "9">>

CollectionsPrefix == <<"c","o","l","l","e","c","t","i","o","n","s","-">>
BitmapListPrefix == <<"b","i","t","m","a","p","L","i","s","t","-">>
HolderSummaryPrefix == <<"h","o","l","d","e","r","S","u","m","m","a","r","y","-">>
FinalResultPrefix == <<"F","i","n","a","l","R","e","s","u","l","t","-">>
JsonExt == <<".","j","s","o","n">>
ChunkWord == <<"c","h","u","n","k">>
DashChunk == <<"-">> \o ChunkWord

\* s.startsWith(p)
StartsWith(s, p) == Len(s) >= Len(p) /\ SubSeq(s, 1, Len(p)) = p

\* s.endsWith(p)
EndsWith(s, p) == Len(s) >= Len(p) /\ SubSeq(s, Len(s) - Len(p) + 1, Len(s)) = p

\* s.indexOf(p), 1-based; 0 when p does not occur in s
IndexOf(s, p) ==
  LET hits == {i \in 1..(Len(s) - Len(p) + 1) : SubSeq(s, i, i + Len(p) - 1) = p}
  IN IF hits = {} THEN 0 ELSE CHOOSE i \in hits : \A j \in hits : i <= j

\* s.includes(p)
Includes(s, p) == IndexOf(s, p) # 0

\* s.split(p)[0]: the text before the first occurrence of p
SplitFirst(s, p) ==
  IF IndexOf(s, p) = 0 THEN s ELSE SubSeq(s, 1, IndexOf(s, p) - 1)

\* s.split(p)[1]: the text between the first and the second occurrence of p;
\* absent (undefined) when p does not occur.
SplitSecond(s, p) ==
  IF IndexOf(s, p) = 0
    THEN [defined |-> FALSE, s |-> <<>>]
    ELSE [defined |-> TRUE,
          s |-> SplitFirst(SubSeq(s, IndexOf(s, p) + Len(p), Len(s)), p)]

\* a < b in the order of Array.prototype.sort() without comparator:
\* code unit by code unit, a proper prefix first.
StrLess(a, b) ==
  LET n == IF Len(a) < Len(b) THEN Len(a) ELSE Len(b)
      differ == {i \in 1..n : a[i] # b[i]}
      first == CHOOSE i \in differ : \A j \in differ : i <= j
  IN IF differ = {} THEN Len(a) < Len(b)
     ELSE Ascii[a[first]] < Ascii[b[first]]

\* parseInt(s): the leading decimal digits of s, NaN when there is none.
RECURSIVE DigitsValue(_, _)
DigitsValue(s, acc) ==
  IF s = <<>> \/ ~(\E d \in 1..10 : Digits[d] = Head(s)) THEN acc
  ELSE DigitsValue(Tail(s), acc * 10 + (CHOOSE d \in 0..9 : Digits[d + 1] = Head(s)))

ParseInt(s) ==
  LET neg == s # <<>> /\ Head(s) = "-"
      body == IF neg THEN Tail(s) ELSE s
  IN IF body = <<>> \/ ~(\E d \in 1..10 : Digits[d] = Head(body))
       THEN [nan |-> TRUE, val |-> 0]
       ELSE [nan |-> FALSE,
             val |-> IF neg THEN 0 - DigitsValue(body, 0) ELSE DigitsValue(body, 0)]

\* new Date().toISOString().replace(/[:.]/g, '-') at millisecond t of the
\* second 2025-01-24T06:30:45: the milliseconds are three zero-padded digits.
Timestamp(t) ==
  <<"2","0","2","5","-","0","1","-","2","4","T","0","6","-","3","0","-","4","5","-">>
  \o <<Digits[((t \div 100) % 10) + 1], Digits[((t \div 10) % 10) + 1], Digits[(t % 10) + 1]>>
  \o <<"Z">>

LastInstant == FirstInstant + MaxClock

\* String(n) for a chunk number
RECURSIVE NumberToString(_)
NumberToString(n) ==
  IF n < 10 THEN <<Digits[n + 1]>>
  ELSE NumberToString(n \div 10) \o <<Digits[(n % 10) + 1]>>

Last(s) == s[Len(s)]

\* Array.prototype.sort() without comparator, as a stable insertion sort: an
\* element moves left past the elements it is less than.
Sort(s) ==
  LET RECURSIVE Insert(_, _)
      Insert(sorted, x) ==
        IF sorted = <<>> THEN <<x>>
        ELSE IF StrLess(x, Last(sorted))
               THEN Append(Insert(SubSeq(sorted, 1, Len(sorted) - 1), x), Last(sorted))
               ELSE Append(sorted, x)
      RECURSIVE Run(_)
      Run(k) == IF k = 0 THEN <<>> ELSE Insert(Run(k - 1), s[k])
  IN Run(Len(s))

\* Array.prototype.reverse()
Reverse(s) == [i \in 1..Len(s) |-> s[Len(s) + 1 - i]]

(***************************************************************************)
(* JavaScript values and JSON text                                         *)
(***************************************************************************)
\* Values in memory: strings, null (standing for every value that is neither
\* a string nor an array nor an object), arrays, and objects whose entries
\* keep their insertion order.  Wallet keys are never canonical array indices,
\* so insertion order is the enumeration order of Object.entries/Object.keys.
Str(s) == [t |-> "str", s |-> s, items |-> <<>>]
Null == [t |-> "null", s |-> "", items |-> <<>>]
Undefined == [t |-> "undefined", s |-> "", items |-> <<>>]
Arr(xs) == [t |-> "arr", s |-> "", items |-> xs]
Obj(es) == [t |-> "obj", s |-> "", items |-> es]
Entry(k, v) == [k |-> k, v |-> v]
EmptyObj == Obj(<<>>)

\* Array.isArray(v)
IsArray(v) == v.t = "arr"

\* the truthiness of v, as `if (v)` and `!v` take it
Truthy(v) == v.t \in {"arr", "obj"} \/ (v.t = "str" /\ v.s # "")

\* Object.keys(o)
ObjKeys(o) == [i \in 1..Len(o.items) |-> o.items[i].k]

ObjHas(o, k) == \E i \in 1..Len(o.items) : o.items[i].k = k

\* o[k]
ObjGet(o, k) ==
  IF ObjHas(o, k)
    THEN o.items[CHOOSE i \in 1..Len(o.items) : o.items[i].k = k].v
    ELSE Undefined

\* o[k] = v: an existing key keeps its place, a new key is appended
ObjSet(o, k, v) ==
  IF ObjHas(o, k)
    THEN Obj([i \in 1..Len(o.items) |->
                IF o.items[i].k = k THEN Entry(k, v) ELSE o.items[i]])
    ELSE Obj(Append(o.items, Entry(k, v)))

Tok(p, s) == [p |-> p, s |-> s]

\* JSON.stringify(v, null, space): the token sequence of the text (white
\* space left out).
RECURSIVE JSONStringify(_)
JSONStringify(v) ==
  LET RECURSIVE Elements(_)
      Elements(xs) ==
        IF xs = <<>> THEN <<>>
        ELSE IF Len(xs) = 1 THEN JSONStringify(xs[1])
        ELSE JSONStringify(xs[1]) \o <<Tok(",", "")>> \o Elements(Tail(xs))
      RECURSIVE Members(_)
      Members(es) ==
        IF es = <<>> THEN <<>>
        ELSE LET m == <<Tok("str", es[1].k), Tok(":", "")>> \o JSONStringify(es[1].v)
             IN IF Len(es) = 1 THEN m ELSE m \o <<Tok(",", "")>> \o Members(Tail(es))
  IN CASE v.t = "str" -> <<Tok("str", v.s)>>
       [] v.t = "arr" -> <<Tok("[", "")>> \o Elements(v.items) \o <<Tok("]", "")>>
       [] v.t = "obj" -> <<Tok("{", "")>> \o Members(v.items) \o <<Tok("}", "")>>
       [] OTHER -> <<Tok("null", "")>>

\* safeStringify(obj): the first attempt, JSON.stringify, succeeds on every
\* value of the model (trees of strings, arrays and objects).
safeStringify(obj) == JSONStringify(obj)

\* JSON.parse(text): recursive descent over the tokens; ParseValue returns
\* the value read at position i and the position after it.
RECURSIVE ParseValue(_, _)
ParseValue(toks, i) ==
  LET RECURSIVE Elements(_, _)
      Elements(j, acc) ==
        IF toks[j].p = "]" THEN [v |-> Arr(acc), i |-> j + 1]
        ELSE LET r == ParseValue(toks, j)
             IN IF toks[r.i].p = ","
                  THEN Elements(r.i + 1, Append(acc, r.v))
                  ELSE [v |-> Arr(Append(acc, r.v)), i |-> r.i + 1]
      RECURSIVE Members(_, _)
      Members(j, acc) ==
        IF toks[j].p = "}" THEN [v |-> acc, i |-> j + 1]
        ELSE LET r == ParseValue(toks, j + 2)
                 o == ObjSet(acc, toks[j].s, r.v)
             IN IF toks[r.i].p = ","
                  THEN Members(r.i + 1, o)
                  ELSE [v |-> o, i |-> r.i + 1]
  IN CASE toks[i].p = "str" -> [v |-> Str(toks[i].s), i |-> i + 1]
       [] toks[i].p = "[" -> Elements(i + 1, <<>>)
       [] toks[i].p = "{" -> Members(i + 1, EmptyObj)
       [] OTHER -> [v |-> Null, i |-> i + 1]

JSONParse(toks) == ParseValue(toks, 1).v

(***************************************************************************)
(* The data directory                                                      *)
(***************************************************************************)
NoFiles == [n \in {} |-> <<>>]

\* fs.writeFile(path, content): creates the file or replaces its content
WriteFile(fs, name, content) ==
  [n \in (DOMAIN fs) \cup {name} |-> IF n = name THEN content ELSE fs[n]]

\* The orders in which fs.readdir may list a directory: every order of a
\* small directory, one order and its reverse of a larger one.
RECURSIVE Perms(_)
Perms(S) ==
  IF S = {} THEN {<<>>}
  ELSE UNION {{<<x>> \o p : p \in Perms(S \ {x})} : x \in S}

RECURSIVE SomeOrder(_)
SomeOrder(S) ==
  IF S = {} THEN <<>>
  ELSE LET x == CHOOSE y \in S : TRUE IN <<x>> \o SomeOrder(S \ {x})

Listings(S) ==
  IF Cardinality(S) <= MaxListed THEN Perms(S)
  ELSE {SomeOrder(S), Reverse(SomeOrder(S))}

NoPath == <<>>
Returned(selected, path, count) ==
  [ok |-> TRUE, selected |-> selected, path |-> path, count |-> count, err |-> ""]
Thrown(msg) ==
  [ok |-> FALSE, selected |-> NoPath, path |-> NoPath, count |-> 0, err |-> msg]

(***************************************************************************)
(* Snapshot names                                                          *)
(***************************************************************************)
CollectionsName(t) == CollectionsPrefix \o Timestamp(t) \o JsonExt
BitmapListName(t) == BitmapListPrefix \o Timestamp(t) \o JsonExt
HolderSummaryName(t) == HolderSummaryPrefix \o Timestamp(t) \o JsonExt
ChunkName(t, n) ==
  HolderSummaryPrefix \o Timestamp(t) \o DashChunk \o NumberToString(n) \o JsonExt
FinalResultName(t) == FinalResultPrefix \o Timestamp(t) \o JsonExt

\* the candidates sorted, the oldest first: the reverse() left out
LatestFirstUnreversed(listing, prefix) ==
  Sort(SelectSeq(listing, LAMBDA file : StartsWith(file, prefix) /\ EndsWith(file, JsonExt)))

\* the candidates in the order of the listing reversed: the sort() left out
LatestFirstUnsorted(listing, prefix) ==
  Reverse(SelectSeq(listing, LAMBDA file : StartsWith(file, prefix) /\ EndsWith(file, JsonExt)))

(***************************************************************************)
(* Reader: the latest file of a kind                                       *)
(***************************************************************************)
\* files.filter(startsWith(prefix) && endsWith('.json')).sort().reverse()
LatestFirst(listing, prefix) ==
  LET Matches(file) == StartsWith(file, prefix) /\ EndsWith(file, JsonExt)
  IN Reverse(Sort(SelectSeq(listing, Matches)))

NoCollectionsError == "No collections files found in data directory"
NoBitmapListError == "No bitmapList files found in data directory"
NoHolderSummaryError == "No holderSummary files found in data directory"
NoFinalResultError == "No FinalResult files found in data directory"
NoDirectoryError == "ENOENT: no such file or directory, scandir"
InvalidChunkError == "Invalid chunk filename format"
WriteError == "write failed"

\* getLatestCollectionsFile, on one listing of the directory
LatestCollections(listing) ==
  LET collectionsFiles == LatestFirst(listing, CollectionsPrefix)
  IN IF Len(collectionsFiles) = 0 THEN Thrown(NoCollectionsError)
     ELSE Returned(collectionsFiles[1], collectionsFiles[1], 0)

\* getLatestBitmapListFile throwing the error copied from the collections
LatestBitmapListCopied(listing) ==
  IF Len(LatestFirst(listing, BitmapListPrefix)) = 0 THEN Thrown(NoCollectionsError)
  ELSE Returned(LatestFirst(listing, BitmapListPrefix)[1],
                LatestFirst(listing, BitmapListPrefix)[1], 0)

\* getLatestBitmapListFile, on one listing of the directory
LatestBitmapList(listing) ==
  LET bitmapListFiles == LatestFirst(listing, BitmapListPrefix)
  IN IF Len(bitmapListFiles) = 0 THEN Thrown(NoBitmapListError)
     ELSE Returned(bitmapListFiles[1], bitmapListFiles[1], 0)

\* getLatestFinalResultFile: the number of holders of the latest final result
LatestFinalResult(listing, fs) ==
  LET finalResultFiles == LatestFirst(listing, FinalResultPrefix)
  IN IF Len(finalResultFiles) = 0 THEN Thrown(NoFinalResultError)
     ELSE Returned(finalResultFiles[1], NoPath,
                   Len(ObjKeys(JSONParse(fs[finalResultFiles[1]]))))

\* parseInt(name.split('chunk')[1]?.split('.')[0] || '0')
ChunkNumber(name) ==
  LET second == SplitSecond(name, ChunkWord)
      text == IF second.defined THEN SplitFirst(second.s, <<".">>) ELSE <<>>
  IN ParseInt(IF text = <<>> THEN <<"0">> ELSE text)

\* the comparator (a, b) => chunkA - chunkB is negative; a NaN difference
\* counts as 0
ChunkBefore(a, b) ==
  /\ ~ChunkNumber(a).nan
  /\ ~ChunkNumber(b).nan
  /\ ChunkNumber(a).val - ChunkNumber(b).val < 0

\* Array.prototype.sort((a, b) => chunkA - chunkB), as a stable insertion sort
SortChunks(s) ==
  LET RECURSIVE Insert(_, _)
      Insert(sorted, x) ==
        IF sorted = <<>> THEN <<x>>
        ELSE IF ChunkBefore(x, Last(sorted))
               THEN Append(Insert(SubSeq(sorted, 1, Len(sorted) - 1), x), Last(sorted))
               ELSE Append(sorted, x)
      RECURSIVE Run(_)
      Run(k) == IF k = 0 THEN <<>> ELSE Insert(Run(k - 1), s[k])
  IN Run(Len(s))

\* every chunk file of the directory, whatever its timestamp
ChunkFilesOfAnySnapshot(listing, timestamp) ==
  SortChunks(SelectSeq(listing, LAMBDA file : Includes(file, ChunkWord)))

\* the chunk files of the snapshot named by `timestamp`, by chunk number
ChunkFilesOf(listing, timestamp) ==
  LET IsChunk(file) == StartsWith(file, timestamp) /\ Includes(file, ChunkWord)
  IN SortChunks(SelectSeq(listing, IsChunk))

\* the merge loop keeping the list a wallet got first
MergeChunksFirstWins(chunkFiles, fs) ==
  LET RECURSIVE MergeFiles(_, _)
      MergeFiles(fl, mergedData) ==
        IF fl = <<>> THEN mergedData
        ELSE MergeFiles(Tail(fl),
               Obj(mergedData.items \o
                   SelectSeq(JSONParse(fs[Head(fl)]).items,
                             LAMBDA e : ~ObjHas(mergedData, e.k))))
  IN MergeFiles(chunkFiles, EmptyObj)

\* the merge loop stopping one chunk short
MergeChunksButLast(chunkFiles, fs) ==
  LET RECURSIVE MergeFiles(_, _)
      MergeFiles(fl, mergedData) ==
        IF Len(fl) <= 1 THEN mergedData
        ELSE MergeFiles(Tail(fl),
               Obj(mergedData.items \o
                   SelectSeq(JSONParse(fs[Head(fl)]).items,
                             LAMBDA e : ~ObjHas(mergedData, e.k))))
  IN MergeFiles(chunkFiles, EmptyObj)

\* the merge loop: every wallet of every chunk, a later chunk replacing the
\* list an earlier chunk gave the same wallet
MergeChunks(chunkFiles, fs) ==
  LET RECURSIVE MergeEntries(_, _)
      MergeEntries(es, mergedData) ==
        IF es = <<>> THEN mergedData
        ELSE IF Truthy(Head(es).v) /\ IsArray(Head(es).v)
               THEN MergeEntries(Tail(es), ObjSet(mergedData, Head(es).k, Head(es).v))
               ELSE MergeEntries(Tail(es), mergedData)
      RECURSIVE MergeFiles(_, _)
      MergeFiles(fl, mergedData) ==
        IF fl = <<>> THEN mergedData
        ELSE MergeFiles(Tail(fl), MergeEntries(JSONParse(fs[Head(fl)]).items, mergedData))
  IN MergeFiles(chunkFiles, EmptyObj)

\* getLatestHoldersSummaryFile, on one listing: the result and the directory
\* it leaves (a chunked snapshot is merged into one new file)
LatestHoldersSummary(listing, fs) ==
  LET holdersSummaryFiles == LatestFirst(listing, HolderSummaryPrefix)
      latestFile == holdersSummaryFiles[1]
      timestamp == SplitFirst(latestFile, DashChunk)
      chunkFiles == ChunkFilesOf(listing, timestamp)
      mergedFilename == timestamp \o JsonExt
  IN IF Len(holdersSummaryFiles) = 0
       THEN [ret |-> Thrown(NoHolderSummaryError), files |-> fs, trace |-> <<>>]
     ELSE IF Includes(latestFile, ChunkWord)
       THEN IF timestamp = <<>>
              THEN [ret |-> Thrown(InvalidChunkError), files |-> fs, trace |-> <<>>]
              ELSE [ret |-> Returned(latestFile, mergedFilename, 0),
                    files |-> WriteFile(fs, mergedFilename,
                                        safeStringify(MergeChunks(chunkFiles, fs))),
                    trace |-> <<[name |-> mergedFilename, ok |-> TRUE]>>]
     ELSE [ret |-> Returned(latestFile, latestFile, 0), files |-> fs, trace |-> <<>>]

(***************************************************************************)
(* Writer                                                                  *)
(***************************************************************************)
\* Program constants of the writer
PerWalletBytes == 100
PerInscriptionBytes == 50
ChunkCount == 5
MaxIdLength == 1000

\* the length test with <= for <
IsValidInscriptionUpTo(id) ==
  id.t = "str" /\ Trim(id.s) # "" /\ Len(id.s) <= MaxIdLength

\* typeof id === 'string' && id.trim() !== '' && id.length < 1000
IsValidInscription(id) ==
  id.t = "str" /\ Trim(id.s) # "" /\ Len(id.s) < MaxIdLength

\* The cleaning loop of saveHoldersSummaryToFile: the cleaned copy and the
\* number of inscriptions it holds.
CleanHolders(holdersSummary) ==
  LET RECURSIVE Loop(_, _, _)
      Loop(es, cleaned, total) ==
        IF es = <<>> THEN [cleaned |-> cleaned, totalInscriptions |-> total]
        ELSE LET wallet == Head(es).k
                 inscriptions == Head(es).v
                 validInscriptions == SelectSeq(inscriptions.items, IsValidInscription)
             IN IF Trim(wallet) = "" THEN Loop(Tail(es), cleaned, total)
                ELSE IF IsArray(inscriptions) /\ Len(validInscriptions) > 0
                  THEN Loop(Tail(es),
                            ObjSet(cleaned, wallet, Arr(validInscriptions)),
                            total + Len(validInscriptions))
                ELSE Loop(Tail(es), cleaned, total)
  IN Loop(holdersSummary.items, EmptyObj, 0)
\* the cleaning of the filtered map keeping a wallet only with more than ten
\* valid identifiers
CleanFilteredOverTen(filteredHoldersSummary) ==
  Obj(SelectSeq(filteredHoldersSummary.items,
                LAMBDA e : /\ e.v.t = "arr"
                           /\ Len(SelectSeq(e.v.items, IsValidInscription)) > 10))

\* The cleaning loop of saveFilteredHoldersSummaryToFile
CleanFiltered(filteredHoldersSummary) ==
  LET RECURSIVE Loop(_, _)
      Loop(es, cleaned) ==
        IF es = <<>> THEN cleaned
        ELSE LET wallet == Head(es).k
                 inscriptions == Head(es).v
                 validInscriptions == SelectSeq(inscriptions.items, IsValidInscription)
             IN IF Trim(wallet) # "" /\ IsArray(inscriptions) /\ Len(validInscriptions) > 0
                  THEN Loop(Tail(es), ObjSet(cleaned, wallet, Arr(validInscriptions)))
                  ELSE Loop(Tail(es), cleaned)
  IN Loop(filteredHoldersSummary.items, EmptyObj)

\* estimatedSize = wallets * 100 + totalInscriptions * 50
EstimatedSize(wallets, totalInscriptions) ==
  wallets * PerWalletBytes + totalInscriptions * PerInscriptionBytes

\* the limits tested with >= for >
MustSplitAtLimit(wallets, totalInscriptions) ==
  EstimatedSize(wallets, totalInscriptions) >= maxSize \/ wallets >= MaxWalletCount

\* estimatedSize > maxSize || wallets > 100000
MustSplit(wallets, totalInscriptions) ==
  EstimatedSize(wallets, totalInscriptions) > maxSize \/ wallets > MaxWalletCount

\* Math.ceil(wallets.length / 5)
\* chunks of a tenth of the wallets
ChunkSizeOfTenth(wallets) == (wallets + 2 * ChunkCount - 1) \div (2 * ChunkCount)

ChunkSize(wallets) == (wallets + ChunkCount - 1) \div ChunkCount

\* the number of iterations of the chunk loop: i = 0, chunkSize, ... < wallets
ChunkIterations(wallets) ==
  IF wallets = 0 THEN 0
  ELSE (wallets + ChunkSize(wallets) - 1) \div ChunkSize(wallets)

\* The number of times saveHoldersSummaryToFile reads the clock.
ClockReads(holdersSummary) ==
  LET c == CleanHolders(holdersSummary)
      wallets == Len(c.cleaned.items)
  IN IF MustSplit(wallets, c.totalInscriptions) THEN ChunkIterations(wallets) ELSE 1

\* the chunk loop giving up at the first chunk that fails
WriteChunksAborting(cleaned, readings, fails, fs) ==
  LET wallets == ObjKeys(cleaned)
      chunkSize == ChunkSize(Len(wallets))
      RECURSIVE Loop(_, _, _, _)
      Loop(i, k, cur, tr) ==
        IF ~(i < Len(wallets)) THEN [files |-> cur, trace |-> tr]
        ELSE LET last == IF i + chunkSize < Len(wallets) THEN i + chunkSize ELSE Len(wallets)
                 chunkWallets == SubSeq(wallets, i + 1, last)
                 chunk == Obj([j \in 1..Len(chunkWallets) |->
                                 Entry(chunkWallets[j], ObjGet(cleaned, chunkWallets[j]))])
                 filename == ChunkName(readings[k], (i \div chunkSize) + 1)
             IN IF k \in fails
                  THEN [files |-> cur,
                        trace |-> Append(tr, [name |-> filename, ok |-> FALSE,
                                        wallets |-> chunkWallets])]
                  ELSE Loop(i + chunkSize, k + 1,
                            WriteFile(cur, filename, safeStringify(chunk)),
                            Append(tr, [name |-> filename, ok |-> TRUE,
                                        wallets |-> chunkWallets]))
  IN Loop(0, 1, fs, <<>>)

\* The chunk loop: iteration k (from 1) reads the clock (readings[k]), names
\* its file and writes it; a failed write (k \in fails) is logged and the
\* loop goes on.
\* The trace keeps, with each attempt, the keys of the chunk object built.
WriteChunks(cleaned, readings, fails, fs) ==
  LET wallets == ObjKeys(cleaned)
      chunkSize == ChunkSize(Len(wallets))
      RECURSIVE Loop(_, _, _, _)
      Loop(i, k, cur, tr) ==
        IF ~(i < Len(wallets)) THEN [files |-> cur, trace |-> tr]
        ELSE LET last == IF i + chunkSize < Len(wallets) THEN i + chunkSize ELSE Len(wallets)
                 chunkWallets == SubSeq(wallets, i + 1, last)
                 chunk == Obj([j \in 1..Len(chunkWallets) |->
                                 Entry(chunkWallets[j], ObjGet(cleaned, chunkWallets[j]))])
                 filename == ChunkName(readings[k], (i \div chunkSize) + 1)
             IN IF k \in fails
                  THEN Loop(i + chunkSize, k + 1, cur,
                            Append(tr, [name |-> filename, ok |-> FALSE,
                                        wallets |-> chunkWallets]))
                  ELSE Loop(i + chunkSize, k + 1,
                            WriteFile(cur, filename, safeStringify(chunk)),
                            Append(tr, [name |-> filename, ok |-> TRUE,
                                        wallets |-> chunkWallets]))
  IN Loop(0, 1, fs, <<>>)

\* saveHoldersSummaryToFile(holdersSummary): what it leaves and how it ends
SaveHoldersSummary(holdersSummary, readings, fails, fs) ==
  LET c == CleanHolders(holdersSummary)
      wallets == Len(c.cleaned.items)
      filename == HolderSummaryName(readings[1])
  IN IF MustSplit(wallets, c.totalInscriptions)
       THEN LET w == WriteChunks(c.cleaned, readings, fails, fs)
            IN [ret |-> Returned(NoPath, NoPath, 0), files |-> w.files, trace |-> w.trace]
     ELSE IF 1 \in fails
       THEN [ret |-> Thrown(WriteError), files |-> fs,
             trace |-> <<[name |-> filename, ok |-> FALSE]>>]
     ELSE [ret |-> Returned(NoPath, NoPath, 0),
           files |-> WriteFile(fs, filename, safeStringify(c.cleaned)),
           trace |-> <<[name |-> filename, ok |-> TRUE]>>]

\* The body shared by the single-file writers: name the file after the clock,
\* serialize, write; a failure is logged and thrown again.
SaveOne(filename, value, failed, fs) ==
  IF failed
    THEN [ret |-> Thrown(WriteError), files |-> fs,
          trace |-> <<[name |-> filename, ok |-> FALSE]>>]
    ELSE [ret |-> Returned(NoPath, NoPath, 0),
          files |-> WriteFile(fs, filename, safeStringify(value)),
          trace |-> <<[name |-> filename, ok |-> TRUE]>>]

\* saveFilteredHoldersSummaryToFile(filteredHoldersSummary)
SaveFiltered(filteredHoldersSummary, t, failed, fs) ==
  SaveOne(FinalResultName(t), CleanFiltered(filteredHoldersSummary), failed, fs)

\* saveCollectionsToFile(collections)
SaveCollections(collections, t, failed, fs) ==
  SaveOne(CollectionsName(t), collections, failed, fs)

\* saveBitmapListToFile(bitmapList)
SaveBitmapList(bitmapList, t, failed, fs) ==
  SaveOne(BitmapListName(t), bitmapList, failed, fs)

(***************************************************************************)
(* Inputs                                                                  *)
(***************************************************************************)
IdNames == <<"a", "b", "c", "d", "e", "f", "g", "h", "i", "j", "k">>

\* n distinct valid identifiers, from the m-th name on
IdsFrom(m, n) == [i \in 1..n |-> Str(IdNames[((m + i - 2) % Len(IdNames)) + 1])]
Ids(n) == IdsFrom(1, n)

Wallet(k, ids) == Entry(k, Arr(ids))

\* Holder maps handed to saveHoldersSummaryToFile
EmptyHolders == EmptyObj
SmallHolders == Obj(<<Wallet("w1", Ids(2))>>)
OtherHolders == Obj(<<Wallet("w2", IdsFrom(3, 2)), Wallet("w1", Ids(1))>>)
DirtyHolders ==
  Obj(<<Wallet("", Ids(1)),
        Wallet(" ", Ids(2)),
        Wallet(" w1 ", <<Str("a"), Str(""), Str(" "), Str("b"), Str(Long999),
                         Str(Long1000), Null, Str("a")>>),
        Wallet("w2", <<Str(""), Str("  ")>>),
        Entry("w3", Null),
        Wallet("w4", <<>>),
        Wallet("w5", <<Str("c")>>)>>)
\* estimate 3 * 100 + 24 * 50 = 1500
SizeAtLimit ==
  Obj(<<Wallet("w1", Ids(8)), Wallet("w2", Ids(8)), Wallet("w3", Ids(8))>>)
\* estimate 3 * 100 + 25 * 50 = 1550
SizeOverLimit ==
  Obj(<<Wallet("w1", Ids(9)), Wallet("w2", IdsFrom(2, 8)), Wallet("w3", IdsFrom(3, 8))>>)
Wallets(n) == Obj([i \in 1..n |-> Wallet(<<"w1", "w2", "w3", "w4", "w5", "w6", "w7">>[i], IdsFrom(i, 1))])

HolderInputs ==
  {EmptyHolders, SmallHolders, DirtyHolders, SizeAtLimit, SizeOverLimit,
   Wallets(3), Wallets(4), Wallets(6)}

Collection(slug) == Obj(<<Entry("slug", Str(slug))>>)
CollectionInputs == {Arr(<<>>), Arr(<<Collection("s1"), Collection("s2")>>)}

Bitmap(wallet, ids) == Obj(<<Entry("wallet", Str(wallet)), Entry("inscription_ids", ids)>>)
BitmapInputs == {Arr(<<>>), Arr(<<Bitmap("w1", Arr(Ids(2)))>>)}

\* The instants n successive clock reads may return: never before the last
\* instant read, never decreasing.
Readings(n) ==
  {r \in [1..n -> clock..LastInstant] : \A i \in 1..(n - 1) : r[i] <= r[i + 1]}

\* The writes, among n, that may fail in one call
FailSets(n) == {F \in SUBSET (1..n) : Cardinality(F) <= MaxFailures}

(***************************************************************************)
(* Operations                                                              *)
(***************************************************************************)
\* The directories a run may find: left by earlier calls of the writers
\* (each built with the writer that writes it), with the instant of the last
\* clock read.
Directory(fs, t) == [dir |-> TRUE, files |-> fs, clock |-> t]
AllAt(n, t) == [i \in 1..n |-> t]

\* the instant the run starts at, and the millisecond before it
T0 == FirstInstant
Earlier == FirstInstant - 1

NoDirectory == [dir |-> FALSE, files |-> NoFiles, clock |-> T0]
EmptyDirectory == Directory(NoFiles, T0)
TwoCollections ==
  Directory(SaveCollections(Arr(<<Collection("s1")>>), T0, FALSE,
              SaveCollections(Arr(<<>>), Earlier, FALSE, NoFiles).files).files, T0)
TwoBitmapLists ==
  Directory(SaveBitmapList(Arr(<<>>), T0, FALSE,
              SaveBitmapList(Arr(<<Bitmap("w1", Arr(Ids(2)))>>), Earlier, FALSE,
                             NoFiles).files).files, T0)
TwoSummaries ==
  Directory(SaveHoldersSummary(OtherHolders, <<T0>>, {},
              SaveHoldersSummary(SmallHolders, <<Earlier>>, {}, NoFiles).files).files, T0)
TwoFinalResults ==
  Directory(SaveFiltered(OtherHolders, T0, FALSE,
              SaveFiltered(SmallHolders, Earlier, FALSE, NoFiles).files).files, T0)
ChunkedSummary ==
  Directory(SaveHoldersSummary(Wallets(5), AllAt(5, T0), {}, NoFiles).files, T0)
MergedSummary ==
  Directory(LatestHoldersSummary(SomeOrder(DOMAIN ChunkedSummary.files),
                                 ChunkedSummary.files).files, T0)
TornSummary ==
  Directory(SaveHoldersSummary(Wallets(5), <<Earlier, Earlier, T0, T0, T0>>, {},
                               NoFiles).files, T0)
FullRun ==
  Directory(SaveFiltered(SmallHolders, T0, FALSE,
              SaveHoldersSummary(SmallHolders, <<T0>>, {},
                SaveBitmapList(Arr(<<>>), T0, FALSE,
                  SaveCollections(Arr(<<Collection("s1")>>), T0, FALSE,
                                  NoFiles).files).files).files).files, T0)

\* Chunk files that were not left by one call of the writer: three chunk
\* files of one timestamp, one of them without a number, that give the wallet
\* w1 three different lists; and two chunk files of which one carries a
\* letter in the place of the number.
UnnumberedChunk == HolderSummaryPrefix \o Timestamp(T0) \o DashChunk \o JsonExt
LetteredChunk == HolderSummaryPrefix \o Timestamp(T0) \o DashChunk \o <<"a">> \o JsonExt
OverlappingChunks ==
  Directory(
    WriteFile(
      WriteFile(
        WriteFile(NoFiles, UnnumberedChunk,
                  safeStringify(Obj(<<Wallet("w1", Ids(1)), Wallet("w4", IdsFrom(6, 1))>>))),
        ChunkName(T0, 1),
        safeStringify(Obj(<<Wallet("w1", Ids(2)), Wallet("w2", IdsFrom(3, 1))>>))),
      ChunkName(T0, 2),
      safeStringify(Obj(<<Wallet("w1", IdsFrom(2, 2)), Wallet("w3", IdsFrom(5, 1))>>))),
    T0)
LetteredChunks ==
  Directory(
    WriteFile(
      WriteFile(NoFiles, ChunkName(T0, 1),
                safeStringify(Obj(<<Wallet("w1", Ids(1)), Wallet("w2", IdsFrom(3, 1))>>))),
      LetteredChunk,
      safeStringify(Obj(<<Wallet("w1", IdsFrom(2, 1)), Wallet("w3", IdsFrom(5, 1))>>))),
    T0)

Directories ==
  {NoDirectory, EmptyDirectory, TwoCollections, TwoBitmapLists, TwoSummaries,
   TwoFinalResults, ChunkedSummary, MergedSummary, TornSummary, FullRun,
   OverlappingChunks, LetteredChunks}

NoCall ==
  [op |-> "none", arg |-> Null, ret |-> Returned(NoPath, NoPath, 0),
   trace |-> <<>>, before |-> NoFiles]
\* What a call of the data processor held in memory: the path of the holder
\* summary it read, the collections it requested, the bitmap records it read
\* and the holder map before the first and after each of them.  For a call
\* of getLatestHoldersSummaryFile that follows another one: the path the call
\* before it returned and the files that call wrote.  For summarizeHolders
\* also the response the upstream gave for each collection.
NoMem ==
  [path |-> NoPath, requests |-> <<>>, bitmapList |-> <<>>, steps |-> <<>>,
   wrote |-> <<>>, responses |-> <<>>]

Init ==
  /\ \E d \in Directories :
       /\ dir = d.dir
       /\ files = d.files
       /\ clock = d.clock
       /\ before = d.files
  /\ op = "init"
  /\ arg = Null
  /\ ret = Returned(NoPath, NoPath, 0)
  /\ trace = <<>>
  /\ saved = NoCall
  /\ mem = NoMem

\* the argument cleaned in place: deleted wallets, filtered lists
InputCleaned(name, value) ==
  IF name = "saveHoldersSummaryToFile" THEN CleanHolders(value).cleaned
  ELSE IF name = "saveFilteredHoldersSummaryToFile" THEN CleanFiltered(value)
  ELSE value

\* The argument of a writer after the call: the writers read it (Object.entries,
\* filter, safeStringify) and build the cleaned copy in an object of their
\* own; nothing is assigned to the argument or to its lists.
InputAfter(name, value) == value

\* A call of a writer ran to its end: r is what the writer computed.  A
\* behaviour is a directory left by earlier calls, at most one call of a
\* writer, and any number of calls of the readers.
Wrote(name, value, r, t) ==
  /\ saved = NoCall
  /\ saved' = [op |-> name, arg |-> value, ret |-> r.ret, trace |-> r.trace,
               before |-> files]
  /\ dir' = TRUE
  /\ files' = r.files
  /\ ret' = r.ret
  /\ trace' = r.trace
  /\ clock' = t
  /\ op' = name
  /\ arg' = InputAfter(name, value)
  /\ before' = files
  /\ mem' = NoMem

saveHoldersSummaryToFile(holdersSummary, readings, fails) ==
  Wrote("saveHoldersSummaryToFile", holdersSummary,
        SaveHoldersSummary(holdersSummary, readings, fails, files),
        readings[Len(readings)])

saveFilteredHoldersSummaryToFile(filteredHoldersSummary, t, failed) ==
  Wrote("saveFilteredHoldersSummaryToFile", filteredHoldersSummary,
        SaveFiltered(filteredHoldersSummary, t, failed, files), t)

saveCollectionsToFile(collections, t, failed) ==
  Wrote("saveCollectionsToFile", collections,
        SaveCollections(collections, t, failed, files), t)

saveBitmapListToFile(bitmapList, t, failed) ==
  Wrote("saveBitmapListToFile", bitmapList,
        SaveBitmapList(bitmapList, t, failed, files), t)

\* A call of a reader ran to its end; fs.readdir throws when the directory
\* does not exist.
Read(name, r) ==
  /\ op' = name
  /\ arg' = Null
  /\ before' = files
  /\ ret' = IF dir THEN r.ret ELSE Thrown(NoDirectoryError)
  /\ files' = IF dir THEN r.files ELSE files
  /\ trace' = IF dir THEN r.trace ELSE <<>>
  /\ mem' = IF name = "getLatestHoldersSummaryFile" /\ op = name
              THEN [NoMem EXCEPT !.path = ret.path, !.wrote = trace]
              ELSE NoMem
  /\ UNCHANGED <<dir, clock, saved>>

ReadOnly(result) == [ret |-> result, files |-> files, trace |-> <<>>]

getLatestCollectionsFile(listing) ==
  Read("getLatestCollectionsFile", ReadOnly(LatestCollections(listing)))

getLatestBitmapListFile(listing) ==
  Read("getLatestBitmapListFile", ReadOnly(LatestBitmapList(listing)))

getLatestHoldersSummaryFile(listing) ==
  Read("getLatestHoldersSummaryFile", LatestHoldersSummary(listing, files))

getLatestFinalResultFile(listing) ==
  Read("getLatestFinalResultFile", ReadOnly(LatestFinalResult(listing, files)))

Next ==
  \/ \E h \in HolderInputs : \E r \in Readings(ClockReads(h)) :
       \E f \in FailSets(ClockReads(h)) : saveHoldersSummaryToFile(h, r, f)
  \/ \E h \in HolderInputs : \E t \in clock..LastInstant : \E failed \in BOOLEAN :
       saveFilteredHoldersSummaryToFile(h, t, failed)
  \/ \E c \in CollectionInputs : \E t \in clock..LastInstant : \E failed \in BOOLEAN :
       saveCollectionsToFile(c, t, failed)
  \/ \E b \in BitmapInputs : \E t \in clock..LastInstant : \E failed \in BOOLEAN :
       saveBitmapListToFile(b, t, failed)
  \/ \E l \in Listings(DOMAIN files) : getLatestCollectionsFile(l)
  \/ \E l \in Listings(DOMAIN files) : getLatestBitmapListFile(l)
  \/ \E l \in Listings(DOMAIN files) : getLatestHoldersSummaryFile(l)
  \/ \E l \in Listings(DOMAIN files) : getLatestFinalResultFile(l)

Spec == Init /\ [][Next]_vars

(***************************************************************************)
(* Data processor                                                          *)
(***************************************************************************)
\* inscriptions.length >= 10
FilterThreshold == 10

Holder(wallet, ids) ==
  Obj(<<Entry("wallet", Str(wallet)), Entry("inscription_ids", Arr(ids))>>)

\* What one request for the holders of a collection comes to: a payload, a
\* response that is not ok, or an error thrown (no API key, no network).
Fetched(holders) == [status |-> "ok", data |-> holders]
NotOk == [status |-> "failed", data |-> <<>>]
FetchThrown == [status |-> "thrown", data |-> <<>>]
FetchError == "fetch failed"

\* fetchHoldersPerCollection: payload.data, or [] when the response is not ok
fetchHoldersPerCollection(response) ==
  IF response.status = "ok" THEN response.data ELSE <<>>

\* holders.forEach of summarizeHolders: push(...holder.inscription_ids)
AddHolders(holdersSummary, holders) ==
  LET RECURSIVE Loop(_, _)
      Loop(hs, rest) ==
        IF rest = <<>> THEN hs
        ELSE LET holder == Head(rest)
                 wallet == ObjGet(holder, "wallet").s
                 ids == ObjGet(holder, "inscription_ids").items
                 existing == IF Truthy(ObjGet(hs, wallet))
                               THEN ObjGet(hs, wallet).items ELSE <<>>
             IN Loop(ObjSet(hs, wallet, Arr(existing \o ids)), Tail(rest))
  IN Loop(holdersSummary, holders)

\* the collections loop ending at the first response that is not ok
CollectHoldersUntilFailure(collections, responses) ==
  LET RECURSIVE Loop(_, _, _)
      Loop(hs, rest, requests) ==
        IF rest = <<>>
          THEN [thrown |-> FALSE, holdersSummary |-> hs, requests |-> requests]
        ELSE LET slug == ObjGet(Head(rest), "slug").s
                 response == responses[slug]
             IN IF response.status # "ok"
                  THEN [thrown |-> response.status = "thrown", holdersSummary |-> hs,
                        requests |-> Append(requests, slug)]
                  ELSE Loop(AddHolders(hs, response.data),
                            Tail(rest), Append(requests, slug))
  IN Loop(EmptyObj, collections.items, <<>>)

\* The collections loop of summarizeHolders: one request per collection, in
\* the order of the file; an error thrown by a request ends the loop.
CollectHolders(collections, responses) ==
  LET RECURSIVE Loop(_, _, _)
      Loop(hs, rest, requests) ==
        IF rest = <<>>
          THEN [thrown |-> FALSE, holdersSummary |-> hs, requests |-> requests]
        ELSE LET slug == ObjGet(Head(rest), "slug").s
                 response == responses[slug]
             IN IF response.status = "thrown"
                  THEN [thrown |-> TRUE, holdersSummary |-> hs,
                        requests |-> Append(requests, slug)]
                  ELSE Loop(AddHolders(hs, fetchHoldersPerCollection(response)),
                            Tail(rest), Append(requests, slug))
  IN Loop(EmptyObj, collections.items, <<>>)

\* Array.from(new Set(ids)): the first occurrence of each, in order
Dedupe(ids) ==
  LET RECURSIVE Loop(_, _)
      Loop(seen, rest) ==
        IF rest = <<>> THEN seen
        ELSE IF \E i \in 1..Len(seen) : seen[i] = Head(rest)
          THEN Loop(seen, Tail(rest))
          ELSE Loop(Append(seen, Head(rest)), Tail(rest))
  IN Loop(<<>>, ids)

\* typeof id === 'string' && id.trim() !== ''
IsBitmapId(id) == id.t = "str" /\ Trim(id.s) # ""

\* the body of bitmapList.forEach with the Set left out: the ids pushed
AddBitmapPushed(holdersSummary, bitmap) ==
  IF ~IsArray(ObjGet(bitmap, "inscription_ids")) THEN holdersSummary
  ELSE ObjSet(holdersSummary, ObjGet(bitmap, "wallet").s,
              Arr((IF Truthy(ObjGet(holdersSummary, ObjGet(bitmap, "wallet").s))
                     THEN ObjGet(holdersSummary, ObjGet(bitmap, "wallet").s).items
                     ELSE <<>>)
                  \o SelectSeq(ObjGet(bitmap, "inscription_ids").items, IsBitmapId)))

\* the body of bitmapList.forEach, in summarizeHolders and in
\* mergeWithExistingData
AddBitmap(holdersSummary, bitmap) ==
  LET inscription_ids == ObjGet(bitmap, "inscription_ids")
      wallet == ObjGet(bitmap, "wallet").s
      existing == IF Truthy(ObjGet(holdersSummary, wallet))
                    THEN ObjGet(holdersSummary, wallet).items ELSE <<>>
      existingIds == Dedupe(existing \o SelectSeq(inscription_ids.items, IsBitmapId))
  IN IF ~IsArray(inscription_ids) THEN holdersSummary
     ELSE ObjSet(holdersSummary, wallet, Arr(existingIds))

\* bitmapList.forEach: the holder map before the first record and after each
BitmapSteps(holdersSummary, bitmapList) ==
  LET RECURSIVE Loop(_, _)
      Loop(steps, rest) ==
        IF rest = <<>> THEN steps
        ELSE Loop(Append(steps, AddBitmap(Last(steps), Head(rest))), Tail(rest))
  IN Loop(<<holdersSummary>>, bitmapList)

\* inscriptions && inscriptions.length > 10, as the first version had it
FilterKeepsOver(inscriptions) ==
  /\ Truthy(inscriptions)
  /\ inscriptions.t = "arr"
  /\ Len(inscriptions.items) > FilterThreshold

\* inscriptions && inscriptions.length >= 10
FilterKeeps(inscriptions) ==
  /\ Truthy(inscriptions)
  /\ inscriptions.t = "arr"
  /\ Len(inscriptions.items) >= FilterThreshold

\* the loop of filterHolders over the keys of the holder summary
FilterWallets(holdersSummary) ==
  Obj(SelectSeq(holdersSummary.items, LAMBDA e : FilterKeeps(e.v)))

\* summarizeHolders up to the call of saveHoldersSummaryToFile: the holder
\* map built, or the error thrown on the way
Summarize(l1, l2, responses) ==
  LET c == LatestCollections(l1)
      b == LatestBitmapList(l2)
      collections == JSONParse(files[c.path])
      bitmapList == JSONParse(files[b.path])
      got == CollectHolders(collections, responses)
      steps == BitmapSteps(got.holdersSummary, bitmapList.items)
  IN IF ~dir THEN [ret |-> Thrown(NoDirectoryError), mem |-> NoMem, files |-> files]
     ELSE IF ~c.ok THEN [ret |-> c, mem |-> NoMem, files |-> files]
     ELSE IF ~b.ok THEN [ret |-> b, mem |-> NoMem, files |-> files]
     ELSE IF got.thrown
       THEN [ret |-> Thrown(FetchError), files |-> files,
             mem |-> [NoMem EXCEPT !.requests = got.requests, !.responses = responses]]
     ELSE [ret |-> Returned(NoPath, NoPath, 0), files |-> files,
           mem |-> [path |-> NoPath, requests |-> got.requests, wrote |-> <<>>,
                    responses |-> responses,
                    bitmapList |-> bitmapList.items, steps |-> steps]]

\* mergeWithExistingData up to the call of saveHoldersSummaryToFile
Merge(l1, l2) ==
  LET h == LatestHoldersSummary(l1, files)
      b == LatestBitmapList(l2)
      holdersSummary == JSONParse(h.files[h.ret.path])
      bitmapList == JSONParse(h.files[b.path])
      steps == BitmapSteps(holdersSummary, bitmapList.items)
  IN IF ~dir THEN [ret |-> Thrown(NoDirectoryError), mem |-> NoMem, files |-> files]
     ELSE IF ~h.ret.ok THEN [ret |-> h.ret, mem |-> NoMem, files |-> h.files]
     ELSE IF ~b.ok
       THEN [ret |-> b, files |-> h.files, mem |-> [NoMem EXCEPT !.path = h.ret.path]]
     ELSE [ret |-> Returned(NoPath, NoPath, 0), files |-> h.files,
           mem |-> [path |-> h.ret.path, requests |-> <<>>, wrote |-> <<>>,
                    responses |-> <<>>,
                    bitmapList |-> bitmapList.items, steps |-> steps]]

\* A call of summarizeHolders or mergeWithExistingData ran to its end: it
\* threw on the way (built.ret), or built a holder map and handed it to
\* saveHoldersSummaryToFile.  `arg` is the map handed over and returned.
\* A behaviour of the data processor is a directory, at most one call that
\* builds a holder map, then at most one call of filterHolders.
Built(name, built) ==
  /\ op = "init"
  /\ op' = name
  /\ before' = files
  /\ mem' = built.mem
  /\ UNCHANGED dir
  /\ IF ~built.ret.ok
       THEN /\ ret' = built.ret
            /\ files' = built.files
            /\ arg' = Null
            /\ trace' = <<>>
            /\ UNCHANGED clock
            /\ saved' = [op |-> name, arg |-> Null, ret |-> built.ret,
                         trace |-> <<>>, before |-> files]
       ELSE LET holdersSummary == Last(built.mem.steps)
            IN \E readings \in Readings(ClockReads(holdersSummary)) :
                 \E fails \in FailSets(ClockReads(holdersSummary)) :
                   LET r == SaveHoldersSummary(holdersSummary, readings, fails,
                                               built.files)
                   IN /\ ret' = r.ret
                      /\ files' = r.files
                      /\ arg' = holdersSummary
                      /\ trace' = r.trace
                      /\ clock' = readings[Len(readings)]
                      /\ saved' = [op |-> name, arg |-> holdersSummary, ret |-> r.ret,
                                   trace |-> r.trace, before |-> files]

summarizeHolders(l1, l2, responses) ==
  Built("summarizeHolders", Summarize(l1, l2, responses))

mergeWithExistingData(l1, l2) ==
  Built("mergeWithExistingData", Merge(l1, l2))

\* filterHolders: read the latest holder summary, select, save the selection.
\* `arg` is the selection handed to saveFilteredHoldersSummaryToFile.
filterHolders(listing, t, failed) ==
  LET h == LatestHoldersSummary(listing, files)
      holdersSummary == JSONParse(h.files[h.ret.path])
      filteredHoldersSummary == FilterWallets(holdersSummary)
      r == SaveFiltered(filteredHoldersSummary, t, failed, h.files)
  IN /\ op # "filterHolders"
     /\ op' = "filterHolders"
     /\ before' = files
     /\ UNCHANGED <<dir, saved>>
     /\ IF ~dir \/ ~h.ret.ok
          THEN /\ ret' = IF ~dir THEN Thrown(NoDirectoryError) ELSE h.ret
               /\ files' = IF ~dir THEN files ELSE h.files
               /\ arg' = Null
               /\ trace' = <<>>
               /\ mem' = NoMem
               /\ UNCHANGED clock
          ELSE /\ ret' = r.ret
               /\ files' = r.files
               /\ arg' = filteredHoldersSummary
               /\ trace' = r.trace
               /\ mem' = [NoMem EXCEPT !.path = h.ret.path]
               /\ clock' = t

\* The responses of the holders API to the requests for the two collections
Responses(r1, r2) == [slug \in {"s1", "s2"} |-> IF slug = "s1" THEN r1 ELSE r2]
TwoAndTen == Fetched(<<Holder("w1", Ids(2)), Holder("w2", Ids(10))>>)
TwoAndNine == Fetched(<<Holder("w1", IdsFrom(2, 2)), Holder("w3", Ids(9))>>)
ResponseInputs ==
  {Responses(TwoAndTen, TwoAndNine), Responses(TwoAndTen, TwoAndTen),
   Responses(NotOk, TwoAndNine), Responses(TwoAndTen, FetchThrown),
   Responses(NotOk, NotOk)}

\* The bitmap records of the data directories
BitmapRecords ==
  Arr(<<Bitmap("w1", Arr(<<Str("a"), Str(" "), Str("k"), Str(""), Null, Str("k")>>)),
        Bitmap("w2", Null),
        Bitmap("w4", Arr(<<Str("c")>>)),
        Bitmap("w1", Arr(<<Str("j"), Str("a")>>)),
        Bitmap("w5", Arr(<<Str("  ")>>))>>)

TwoSlugs == Arr(<<Collection("s1"), Collection("s2")>>)
NineAndTen == Obj(<<Wallet("w1", Ids(9)), Wallet("w2", Ids(10))>>)
NineTenEleven ==
  Obj(<<Wallet("w1", Ids(9)), Wallet("w2", Ids(10)), Wallet("w3", Ids(11))>>)

\* The directories a run of the data processor may find
Fetches ==
  SaveBitmapList(BitmapRecords, T0, FALSE,
    SaveCollections(TwoSlugs, T0, FALSE, NoFiles).files).files
DataFetched == Directory(Fetches, T0)
DataSummarized ==
  Directory(SaveHoldersSummary(NineAndTen, <<T0>>, {}, Fetches).files, T0)
DataChunked ==
  Directory(SaveHoldersSummary(NineTenEleven, AllAt(ClockReads(NineTenEleven), T0), {},
                               Fetches).files, T0)
DataNoBitmaps ==
  Directory(SaveHoldersSummary(NineAndTen, <<T0>>, {},
              SaveCollections(TwoSlugs, T0, FALSE, NoFiles).files).files, T0)

DataDirectories ==
  {NoDirectory, EmptyDirectory, DataFetched, DataSummarized, DataChunked, DataNoBitmaps}

InitData ==
  /\ \E d \in DataDirectories :
       /\ dir = d.dir
       /\ files = d.files
       /\ clock = d.clock
       /\ before = d.files
  /\ op = "init"
  /\ arg = Null
  /\ ret = Returned(NoPath, NoPath, 0)
  /\ trace = <<>>
  /\ saved = NoCall
  /\ mem = NoMem

NextData ==
  \/ \E l1, l2 \in Listings(DOMAIN files) : \E responses \in ResponseInputs :
       summarizeHolders(l1, l2, responses)
  \/ \E l1, l2 \in Listings(DOMAIN files) : mergeWithExistingData(l1, l2)
  \/ \E l \in Listings(DOMAIN files) : \E t \in clock..LastInstant :
       \E failed \in BOOLEAN : filterHolders(l, t, failed)

SpecData == InitData /\ [][NextData]_vars

(***************************************************************************)
(* Notions the properties are stated in                                    *)
(***************************************************************************)
\* the files of one kind in a directory
KindFiles(fs, prefix) ==
  {n \in DOMAIN fs : StartsWith(n, prefix) /\ EndsWith(n, JsonExt)}

\* the millisecond in the timestamp of a file name of the kind `prefix`
Millis(name, prefix) ==
  ParseInt(SubSeq(name, Len(prefix) + 21, Len(prefix) + 23)).val

\* the text of a file name up to the end of its timestamp
Stamp(name, prefix) == SubSeq(name, 1, Len(prefix) + 24)

DistinctTimestamps(names, prefix) ==
  \A m, n \in names : m # n => Millis(m, prefix) # Millis(n, prefix)

KeySet(o) == {o.items[i].k : i \in 1..Len(o.items)}

\* two objects hold the same mapping: the same keys, each with the same value
SameMapping(a, b) ==
  /\ a.t = "obj" /\ b.t = "obj"
  /\ KeySet(a) = KeySet(b)
  /\ \A k \in KeySet(a) : ObjGet(a, k) = ObjGet(b, k)

ItemSet(list) == {list.items[i] : i \in 1..Len(list.items)}

\* the same keys, each with the same set of identifiers
SameMappingAsSets(a, b) ==
  /\ a.t = "obj" /\ b.t = "obj"
  /\ KeySet(a) = KeySet(b)
  /\ \A k \in KeySet(a) : ItemSet(ObjGet(a, k)) = ItemSet(ObjGet(b, k))

\* the number of identifiers of a map of lists
RECURSIVE CountIds(_)
CountIds(es) == IF es = <<>> THEN 0 ELSE Len(Head(es).v.items) + CountIds(Tail(es))

\* the names a call changed: created, or given new content
Changed == {n \in DOMAIN files : n \notin DOMAIN before \/ files[n] # before[n]}

\* nothing of the directory was removed
NothingRemoved == DOMAIN before \subseteq DOMAIN files

SavedSingleFile ==
  /\ saved.op = "saveHoldersSummaryToFile"
  /\ saved.ret.ok
  /\ Len(saved.trace) = 1
  /\ ~Includes(saved.trace[1].name, ChunkWord)

SavedChunks ==
  /\ saved.op = "saveHoldersSummaryToFile"
  /\ Len(saved.trace) >= 1
  /\ Includes(saved.trace[1].name, ChunkWord)

AllWritten(tr) == \A i \in 1..Len(tr) : tr[i].ok

(***************************************************************************)
(* C1  Round trip, single file                                             *)
(***************************************************************************)
\* C1: after saveHoldersSummaryToFile wrote a map as one file, and with no
\* holder summary of a later timestamp in the directory,
\* getLatestHoldersSummaryFile returns the path of a file whose parsed content
\* is the cleaned map: the same wallets, each with the same identifier list.
RoundTripSingleFile ==
  ( /\ op = "getLatestHoldersSummaryFile"
    /\ SavedSingleFile
    /\ \A n \in KindFiles(before, HolderSummaryPrefix) :
         Millis(n, HolderSummaryPrefix) <= Millis(saved.trace[1].name, HolderSummaryPrefix) )
  => /\ ret.ok
     /\ ret.path \in DOMAIN files
     /\ SameMapping(JSONParse(files[ret.path]), CleanHolders(saved.arg).cleaned)

\* reached: the map needed cleaning and older holder summaries are around
RoundTripSingleFileWitness ==
  /\ op = "getLatestHoldersSummaryFile"
  /\ SavedSingleFile
  /\ saved.arg = DirtyHolders
  /\ Cardinality(KindFiles(before, HolderSummaryPrefix)) >= 3
  /\ ret.ok
  /\ ret.path = saved.trace[1].name

(***************************************************************************)
(* C2  Shard reconstruction completeness                                   *)
(***************************************************************************)
\* C2: after saveHoldersSummaryToFile split a cleaned map into chunk files in
\* a directory that was empty, no chunk write failing, a following
\* getLatestHoldersSummaryFile returns one file that holds exactly the wallets
\* of the cleaned map, each with its identifiers.
ShardReconstructionComplete ==
  ( /\ op = "getLatestHoldersSummaryFile"
    /\ SavedChunks
    /\ AllWritten(saved.trace)
    /\ saved.before = NoFiles )
  => /\ ret.ok
     /\ ret.path \in DOMAIN files
     /\ SameMappingAsSets(JSONParse(files[ret.path]), CleanHolders(saved.arg).cleaned)

(***************************************************************************)
(* C3  One timestamp per shard set                                         *)
(***************************************************************************)
\* C3: the chunk files written by one call of saveHoldersSummaryToFile carry
\* one and the same timestamp in their names.
ShardsShareTimestamp ==
  (op = "saveHoldersSummaryToFile" /\ SavedChunks)
  => \A i, j \in 1..Len(trace) :
       Stamp(trace[i].name, HolderSummaryPrefix) = Stamp(trace[j].name, HolderSummaryPrefix)

(***************************************************************************)
(* C4  Split decision                                                      *)
(***************************************************************************)
\* the single file saveHoldersSummaryToFile names at the instant of the clock
SingleFileWritten ==
  /\ Len(trace) = 1
  /\ trace[1].name = HolderSummaryPrefix \o Timestamp(clock) \o JsonExt

\* every name the call produced is the name of a chunk of a holder summary
OnlyChunksWritten ==
  /\ Len(trace) >= 1
  /\ \A i \in 1..Len(trace) :
       /\ StartsWith(trace[i].name, HolderSummaryPrefix)
       /\ Includes(trace[i].name, DashChunk)
       /\ EndsWith(trace[i].name, JsonExt)

\* C4: with W wallets and I identifiers in the cleaned map,
\* saveHoldersSummaryToFile writes exactly one file, and no chunk file, when
\* W*100 + I*50 is at most the size limit and W is at most the wallet limit;
\* otherwise every file it writes is a chunk file.  Whatever it changes in the
\* directory is among the files it names, and it removes nothing.
SplitDecision ==
  op = "saveHoldersSummaryToFile"
  => LET cleaned == CleanHolders(arg).cleaned
         W == Len(cleaned.items)
         I == CountIds(cleaned.items)
         named == {trace[i].name : i \in 1..Len(trace)}
     IN /\ Changed \subseteq named
        /\ NothingRemoved
        /\ IF W * 100 + I * 50 <= maxSize /\ W <= MaxWalletCount
           THEN /\ SingleFileWritten
                /\ ret.ok => /\ trace[1].name \in DOMAIN files
                             /\ SameMapping(JSONParse(files[trace[1].name]), cleaned)
                /\ ~ret.ok => files = before
           ELSE OnlyChunksWritten

\* reached: a map one wallet over the wallet limit and far below the size
\* limit, written as chunks only
SplitDecisionWitness ==
  /\ op = "saveHoldersSummaryToFile"
  /\ ret.ok
  /\ arg = Wallets(MaxWalletCount + 1)
  /\ Len(arg.items) * 100 + CountIds(arg.items) * 50 < maxSize
  /\ OnlyChunksWritten
  /\ Changed # {}

(***************************************************************************)
(* C5  Latest-file selection                                               *)
(***************************************************************************)
KindOf(o) ==
  CASE o = "getLatestCollectionsFile" -> CollectionsPrefix
    [] o = "getLatestBitmapListFile" -> BitmapListPrefix
    [] o = "getLatestHoldersSummaryFile" -> HolderSummaryPrefix
    [] o = "getLatestFinalResultFile" -> FinalResultPrefix
    [] OTHER -> <<>>

IsReader == KindOf(op) # <<>>

\* C5: in a directory that holds files of the kind asked for, their timestamps
\* pairwise distinct, each latest-file reader selects a file of that kind
\* whose timestamp is the greatest - whatever the order the directory was
\* listed in.
LatestFileSelection ==
  LET prefix == KindOf(op)
      candidates == KindFiles(before, prefix)
  IN ( /\ IsReader
       /\ dir
       /\ candidates # {}
       /\ DistinctTimestamps(candidates, prefix) )
     => /\ ret.ok
        /\ ret.selected \in candidates
        /\ \A n \in candidates : Millis(n, prefix) <= Millis(ret.selected, prefix)
        /\ op # "getLatestFinalResultFile" => ret.path \in DOMAIN files

\* reached: three snapshots of the kind, of three instants
LatestFileSelectionWitness ==
  /\ op = "getLatestCollectionsFile"
  /\ Cardinality(KindFiles(before, CollectionsPrefix)) = 3
  /\ DistinctTimestamps(KindFiles(before, CollectionsPrefix), CollectionsPrefix)
  /\ ret.ok
  /\ Millis(ret.selected, CollectionsPrefix) = LastInstant

(***************************************************************************)
(* C6  Cleaning on write                                                   *)
(***************************************************************************)
Blank == {"", " ", "  "}

\* a wallet key that is kept: not empty, not whitespace only
KeyKept(k) == k \notin Blank

\* an identifier that is kept: a string, not empty, not whitespace only, of
\* fewer than 1000 characters
IdKept(id) == id.t = "str" /\ id.s \notin Blank /\ Len(id.s) < 1000

\* the kept identifiers of a list, in their order
KeptOf(list) == SelectSeq(list.items, IdKept)

\* the wallets of the input that are to be written
WalletsKept(m) ==
  {k \in KeySet(m) : KeyKept(k) /\ IsArray(ObjGet(m, k)) /\ KeptOf(ObjGet(m, k)) # <<>>}

IsHoldersWriter ==
  op \in {"saveHoldersSummaryToFile", "saveFilteredHoldersSummaryToFile"}

\* the names the call wrote
WrittenNames == {trace[i].name : i \in {j \in 1..Len(trace) : trace[j].ok}}

\* C6: every file the two holders-map writers write holds only wallets whose
\* key is not blank, each with a non-empty list of non-blank string
\* identifiers shorter than 1000 characters: exactly the valid identifiers the
\* input gave the wallet, in their order.  When no write fails, every input
\* wallet that has a valid key and a valid identifier is written.
CleaningOnWrite ==
  IsHoldersWriter
  => /\ \A n \in WrittenNames :
          LET written == JSONParse(files[n])
          IN /\ written.t = "obj"
             /\ \A k \in KeySet(written) :
                  /\ k \in WalletsKept(arg)
                  /\ ObjGet(written, k).t = "arr"
                  /\ ObjGet(written, k).items = KeptOf(ObjGet(arg, k))
     /\ (ret.ok /\ AllWritten(trace))
          => \A k \in WalletsKept(arg) :
               \E n \in WrittenNames : k \in KeySet(JSONParse(files[n]))

\* reached: a map with blank keys, lists that are not lists, and blank,
\* non-string and 1000-character identifiers, written by either writer
CleaningOnWriteWitness ==
  /\ IsHoldersWriter
  /\ arg = DirtyHolders
  /\ ret.ok
  /\ WrittenNames # {}
  /\ WalletsKept(arg) # KeySet(arg)
  /\ \E k \in WalletsKept(arg) : KeptOf(ObjGet(arg, k)) # ObjGet(arg, k).items

(***************************************************************************)
(* C10  No snapshot of the kind                                            *)
(***************************************************************************)
ErrorOf(o) ==
  CASE o = "getLatestCollectionsFile" -> NoCollectionsError
    [] o = "getLatestBitmapListFile" -> NoBitmapListError
    [] o = "getLatestHoldersSummaryFile" -> NoHolderSummaryError
    [] o = "getLatestFinalResultFile" -> NoFinalResultError
    [] OTHER -> ""

\* C10: in an existing data directory that holds no file of the kind asked
\* for, each latest-file reader fails with the error naming that kind, returns
\* no path and leaves the directory as it was.
NoSnapshotFails ==
  (IsReader /\ dir /\ KindFiles(before, KindOf(op)) = {})
  => /\ ~ret.ok
     /\ ret.err = ErrorOf(op)
     /\ ret.path = NoPath
     /\ files = before

\* reached: a directory that holds snapshots, none of the kind asked for
NoSnapshotFailsWitness ==
  /\ op = "getLatestFinalResultFile"
  /\ dir
  /\ DOMAIN before # {}
  /\ KindFiles(before, FinalResultPrefix) = {}
  /\ ~ret.ok
  /\ ret.err = NoFinalResultError

(***************************************************************************)
(* C7  Threshold filter                                                    *)
(***************************************************************************)
\* the number of identifiers of wallet k in the map m
Held(m, k) == Len(ObjGet(m, k).items)

NoDuplicates(ids) ==
  \A i, j \in 1..Len(ids) : i # j => ids[i] # ids[j]

IsBuilder == op \in {"summarizeHolders", "mergeWithExistingData"}

\* what the wallet of the i-th bitmap record held before the record
HadBefore(i) ==
  LET wallet == ObjGet(mem.bitmapList[i], "wallet").s
  IN IF ObjHas(mem.steps[i], wallet) THEN ItemSet(ObjGet(mem.steps[i], wallet)) ELSE {}

\* the string identifiers of the i-th bitmap record, less the rejected ones
Offered(i, rejected) ==
  {id \in ItemSet(ObjGet(mem.bitmapList[i], "inscription_ids")) :
     id.t = "str" /\ id.s \notin rejected}

\* the i-th bitmap record was merged as a union: its wallet holds what it
\* held and what the record offers, each once, and no other wallet changed; a
\* record whose inscription_ids is no list changed nothing
MergedAsUnion(i, rejected) ==
  LET record == mem.bitmapList[i]
      wallet == ObjGet(record, "wallet").s
      prev == mem.steps[i]
      next == mem.steps[i + 1]
  IN IF ObjGet(record, "inscription_ids").t = "arr"
       THEN /\ KeySet(next) = KeySet(prev) \cup {wallet}
            /\ ItemSet(ObjGet(next, wallet)) = HadBefore(i) \cup Offered(i, rejected)
            /\ NoDuplicates(ObjGet(next, wallet).items)
            /\ \A k \in KeySet(prev) \ {wallet} : ObjGet(next, k) = ObjGet(prev, k)
       ELSE next = prev

\* C8, as amended: merging a bitmap record with a list-shaped inscription_ids,
\* summarizeHolders and mergeWithExistingData leave the wallet with every
\* identifier it had and every string identifier of the record that is not
\* empty after trimming, each exactly once; an absent wallet is inserted; a
\* record whose inscription_ids is not a list leaves the map unchanged.
CrossSourceUnion ==
  IsBuilder => \A i \in 1..Len(mem.bitmapList) : MergedAsUnion(i, Blank)

\* C8, as stated: ... and every non-empty string identifier of the record ...
CrossSourceUnionOfNonEmpty ==
  IsBuilder => \A i \in 1..Len(mem.bitmapList) : MergedAsUnion(i, {""})

\* reached: a record that repeats an identifier, offers one the wallet holds,
\* one it does not hold, a blank one and one that is no string; a record for
\* an absent wallet; a record whose inscription_ids is no list
CrossSourceUnionWitness ==
  /\ IsBuilder
  /\ ret.ok
  /\ \E i \in 1..Len(mem.bitmapList) :
       /\ HadBefore(i) \cap Offered(i, Blank) # {}
       /\ Offered(i, Blank) \ HadBefore(i) # {}
       /\ Offered(i, {""}) # Offered(i, Blank)
       /\ ~NoDuplicates(ObjGet(mem.bitmapList[i], "inscription_ids").items)
  /\ \E i \in 1..Len(mem.bitmapList) :
       /\ ~ObjHas(mem.steps[i], ObjGet(mem.bitmapList[i], "wallet").s)
       /\ ObjHas(mem.steps[i + 1], ObjGet(mem.bitmapList[i], "wallet").s)
  /\ \E i \in 1..Len(mem.bitmapList) :
       ObjGet(mem.bitmapList[i], "inscription_ids").t # "arr"

(***************************************************************************)
(* C9  No identifier twice for a wallet                                    *)
(***************************************************************************)
\* C9: in the holder map summarizeHolders builds and in every file it writes
\* of it, no identifier appears twice in the list of a wallet.
NoIdentifierTwice ==
  (op = "summarizeHolders" /\ ret.ok /\ arg.t = "obj")
  => /\ \A k \in KeySet(arg) : NoDuplicates(ObjGet(arg, k).items)
     /\ \A n \in WrittenNames :
          \A k \in KeySet(JSONParse(files[n])) :
            NoDuplicates(ObjGet(JSONParse(files[n]), k).items)

(***************************************************************************)
(* C11  Name of the merged file                                            *)
(***************************************************************************)
\* getLatestHoldersSummaryFile merged a chunked snapshot in this call
MergedNow ==
  /\ op = "getLatestHoldersSummaryFile"
  /\ ret.ok
  /\ Includes(ret.selected, ChunkWord)

\* C11: the file getLatestHoldersSummaryFile writes and returns for a merged
\* chunk set is named <timestamp>.json: the timestamp of the chunks followed
\* by .json, with neither the prefix holderSummary- nor the chunk marker.
MergedFileNamedByTimestamp ==
  MergedNow
  => /\ ret.path = SubSeq(Stamp(ret.selected, HolderSummaryPrefix),
                          Len(HolderSummaryPrefix) + 1,
                          Len(HolderSummaryPrefix) + 24) \o JsonExt
     /\ ~StartsWith(ret.path, HolderSummaryPrefix)
     /\ ~Includes(ret.path, ChunkWord)
     /\ ret.path \in DOMAIN files

(***************************************************************************)
(* C12  Merging twice                                                      *)
(***************************************************************************)
\* the chunk files of the directory that carry the timestamp of `name`
ChunksStamped(name) ==
  {n \in KindFiles(files, HolderSummaryPrefix) :
     /\ Includes(n, DashChunk)
     /\ Stamp(n, HolderSummaryPrefix) = Stamp(name, HolderSummaryPrefix)}

\* the mapping m holds the wallets of the chunk files in `chunks`, each with
\* the list one of them gives it
HoldsTheChunks(m, chunks) ==
  /\ m.t = "obj"
  /\ KeySet(m) = UNION {KeySet(JSONParse(files[n])) : n \in chunks}
  /\ \A k \in KeySet(m) : \E n \in chunks : ObjGet(JSONParse(files[n]), k) = ObjGet(m, k)

\* this call of getLatestHoldersSummaryFile follows one that merged chunks
SecondAfterMerge ==
  /\ op = "getLatestHoldersSummaryFile"
  /\ mem.path # NoPath
  /\ mem.wrote # <<>>

\* C12: a call of getLatestHoldersSummaryFile that directly follows one that
\* merged a chunk set returns the same path, the file holds the mapping of
\* the chunk set, and the call leaves the directory as it found it.
MergeTwice ==
  SecondAfterMerge
  => /\ ret.ok
     /\ ret.path = mem.path
     /\ files = before
     /\ HoldsTheChunks(JSONParse(files[ret.path]), ChunksStamped(ret.path))

\* reached: the second call, the directory listing five chunks and their
\* merged file
MergeTwiceWitness ==
  /\ SecondAfterMerge
  /\ ret.ok
  /\ Cardinality(ChunksStamped(ret.path)) = 5
  /\ Cardinality(KeySet(JSONParse(files[ret.path]))) = 5

(***************************************************************************)
(* C13  Number of chunk files                                              *)
(***************************************************************************)
\* saveHoldersSummaryToFile took the chunk path in this call
SplitNow ==
  /\ op = "saveHoldersSummaryToFile"
  /\ trace # <<>>
  /\ Includes(trace[1].name, DashChunk)

\* C13: a call of saveHoldersSummaryToFile that splits the map and in which
\* no chunk fails writes exactly 5 chunk files, chunk1 to chunk5, whatever
\* the number of wallets (at least one) of the map.
FiveChunksWritten ==
  (SplitNow /\ AllWritten(trace))
  => /\ Len(trace) = ChunkCount
     /\ \A i \in 1..Len(trace) :
          EndsWith(trace[i].name, DashChunk \o NumberToString(i) \o JsonExt)

(***************************************************************************)
(* C14  A chunk that fails                                                 *)
(***************************************************************************)
\* the wallets of chunk i of the cleaned map c: the i-th run of
\* ceil(W / 5) keys, in the order of the map
WalletsOfChunk(c, i) ==
  LET size == ChunkSize(Len(c.items))
  IN {c.items[j].k : j \in {x \in 1..Len(c.items) : (x - 1) \div size = i - 1}}

\* the number of chunks of a cleaned map
ChunksOf(c) ==
  Cardinality({(x - 1) \div ChunkSize(Len(c.items)) : x \in 1..Len(c.items)})

\* a chunk of the call failed
ChunkFailed == SplitNow /\ ~AllWritten(trace)

\* C14: when a chunk of saveHoldersSummaryToFile fails, the call still
\* attempts every chunk of the map, each chunk that succeeded is a file
\* holding its own wallets with their cleaned lists, and the call returns
\* without throwing.
PartialChunkFailure ==
  ChunkFailed
  => LET c == CleanHolders(arg).cleaned
     IN /\ ret.ok
        /\ Len(trace) = ChunksOf(c)
        /\ \A i \in 1..Len(trace) :
             /\ EndsWith(trace[i].name, DashChunk \o NumberToString(i) \o JsonExt)
             /\ trace[i].ok
                => /\ trace[i].name \in DOMAIN files
                   /\ KeySet(JSONParse(files[trace[i].name])) = WalletsOfChunk(c, i)
                   /\ \A k \in WalletsOfChunk(c, i) :
                        ObjGet(JSONParse(files[trace[i].name]), k) = ObjGet(c, k)

\* reached: a chunk failed that is not the last, and a later one is on disk
PartialChunkFailureWitness ==
  /\ ChunkFailed
  /\ ret.ok
  /\ \E i, j \in 1..Len(trace) :
       /\ i < j
       /\ ~trace[i].ok
       /\ trace[j].ok
       /\ trace[j].name \in DOMAIN files
       /\ trace[j].name \notin DOMAIN before

(***************************************************************************)
(* safeStringify on values that make an attempt fail                       *)
(***************************************************************************)
\* The depth below which the third attempt does not descend.
MaxDepth == 10
\* The deepest nesting of the values serialized.
MaxNesting == 12

CircularReference == "[Circular Reference]"
MaxDepthReached == "[Max Depth Reached]"

\* Values that may share or repeat objects: a heap is a sequence of arrays and
\* objects, whose members are strings, bigints or references to a place of
\* the heap; a value is a member with its heap.
GStr(s) == [t |-> "str", s |-> s, n |-> 0]
GBigInt == [t |-> "bigint", s |-> "", n |-> 0]
GRef(n) == [t |-> "ref", s |-> "", n |-> n]
GArr(vals) == [t |-> "arr", keys |-> [i \in 1..Len(vals) |-> ""], vals |-> vals]
GObj(keys, vals) == [t |-> "obj", keys |-> keys, vals |-> vals]

\* the objects an object refers to, and those reached from a set of objects
Succ(h, n) == {h[n].vals[i].n : i \in {j \in 1..Len(h[n].vals) : h[n].vals[j].t = "ref"}}

RECURSIVE Closure(_, _)
Closure(h, S) ==
  LET T == S \cup UNION {Succ(h, n) : n \in S}
  IN IF T = S THEN S ELSE Closure(h, T)

Reachable(h, v) == IF v.t = "ref" THEN Closure(h, {v.n}) ELSE {}

\* the value refers to itself through its members
Cyclic(h, v) == \E n \in Reachable(h, v) : n \in Closure(h, Succ(h, n))

\* a bigint is among the value and its members
HasBigInt(h, v) ==
  \/ v.t = "bigint"
  \/ \E n \in Reachable(h, v) : \E i \in 1..Len(h[n].vals) : h[n].vals[i].t = "bigint"

\* the outcome of one attempt
Encoded(out) == [ok |-> TRUE, out |-> out]
Failed == [ok |-> FALSE, out |-> <<>>]

\* a value without cycles as a tree
RECURSIVE Tree(_, _)
Tree(h, v) ==
  IF v.t # "ref" THEN Str(v.s)
  ELSE LET node == h[v.n]
       IN IF node.t = "arr"
            THEN Arr([i \in 1..Len(node.vals) |-> Tree(h, node.vals[i])])
            ELSE Obj([i \in 1..Len(node.vals) |->
                        Entry(node.keys[i], Tree(h, node.vals[i]))])

\* First attempt, JSON.stringify(obj, null, space): a TypeError on a cyclic
\* value and on a bigint.
PlainEncoding(h, v) ==
  IF Cyclic(h, v) \/ HasBigInt(h, v) THEN Failed
  ELSE Encoded(JSONStringify(Tree(h, v)))

\* The replacer of the second attempt, called on the value and then on each
\* member in order: an object met before becomes the string
\* '[Circular Reference]', an object met first is added to `seen`.
RECURSIVE Replaced(_, _, _)
RECURSIVE ReplacedAll(_, _, _, _)
Replaced(h, v, seen) ==
  IF v.t # "ref" THEN [v |-> Str(v.s), seen |-> seen]
  ELSE IF v.n \in seen THEN [v |-> Str(CircularReference), seen |-> seen]
  ELSE LET node == h[v.n]
           kids == ReplacedAll(h, node.vals, seen \cup {v.n}, <<>>)
       IN [v |-> IF node.t = "arr" THEN Arr(kids.vs)
                 ELSE Obj([i \in 1..Len(kids.vs) |-> Entry(node.keys[i], kids.vs[i])]),
           seen |-> kids.seen]

ReplacedAll(h, vals, seen, acc) ==
  IF vals = <<>> THEN [vs |-> acc, seen |-> seen]
  ELSE LET r == Replaced(h, Head(vals), seen)
       IN ReplacedAll(h, Tail(vals), r.seen, Append(acc, r.v))

\* Second attempt, JSON.stringify(obj, replacer, space): the replacer returns
\* a bigint as it is, and JSON.stringify throws on it.
CycleSafeEncoding(h, v) ==
  IF HasBigInt(h, v) THEN Failed
  ELSE Encoded(JSONStringify(Replaced(h, v, {}).v))

\* if (depth > 10), with the comparison the other way round
DepthExceededFrom(depth) == depth >= MaxDepth

\* if (depth > 10)
DepthExceeded(depth) == depth > MaxDepth

\* processObject(obj, depth) of the third attempt: the chunks it pushes, or
\* the failure of JSON.stringify on a bigint.
RECURSIVE processObject(_, _, _)
RECURSIVE processMembers(_, _, _, _)
processObject(h, v, depth) ==
  IF DepthExceeded(depth) THEN Encoded(<<Tok("str", MaxDepthReached)>>)
  ELSE IF v.t = "ref"
    THEN LET node == h[v.n]
             inner == processMembers(h, node, 1, depth)
         IN IF ~inner.ok THEN Failed
            ELSE IF node.t = "arr"
              THEN Encoded(<<Tok("[", "")>> \o inner.out \o <<Tok("]", "")>>)
              ELSE Encoded(<<Tok("{", "")>> \o inner.out \o <<Tok("}", "")>>)
  ELSE IF v.t = "bigint" THEN Failed
  ELSE Encoded(<<Tok("str", v.s)>>)

\* the forEach over the items of an array or the keys of an object, from
\* index i on
processMembers(h, node, i, depth) ==
  IF i > Len(node.vals) THEN Encoded(<<>>)
  ELSE LET comma == IF i > 1 THEN <<Tok(",", "")>> ELSE <<>>
           key == IF node.t = "obj" THEN <<Tok("str", node.keys[i]), Tok(":", "")>> ELSE <<>>
           item == processObject(h, node.vals[i], depth + 1)
           rest == processMembers(h, node, i + 1, depth)
       IN IF ~item.ok \/ ~rest.ok THEN Failed
          ELSE Encoded(comma \o key \o item.out \o rest.out)

\* Third attempt: processObject(obj), chunks.join('')
ManualEncoding(h, v) == processObject(h, v, 0)

\* What safeStringify has done so far and how it ended.
Pending == [ok |-> FALSE, thrown |-> FALSE, out |-> <<>>]
Serialized(out) == [ok |-> TRUE, thrown |-> FALSE, out |-> out]
SerializeFailed == [ok |-> FALSE, thrown |-> TRUE, out |-> <<>>]
Attempt(name, r) == [name |-> name, ok |-> r.ok, out |-> r.out]

\* Values: n levels of arrays or objects around a last member, which is a
\* string, a bigint or the outermost object again.
Nested(t, n, last) ==
  [heap |-> [i \in 1..n |->
               LET inner == IF i < n THEN GRef(i + 1) ELSE last
               IN IF t = "arr" THEN GArr(<<inner>>) ELSE GObj(<<"k">>, <<inner>>)],
   root |-> IF n = 0 THEN last ELSE GRef(1)]

\* an object used twice, an object holding itself and a bigint, and an array
\* of a deep value and a string
Shared == [heap |-> <<GArr(<<GRef(2), GRef(2)>>), GObj(<<"k">>, <<GStr("a")>>)>>, root |-> GRef(1)]
SelfAndBigInt == [heap |-> <<GObj(<<"self", "big">>, <<GRef(1), GBigInt>>)>>, root |-> GRef(1)]
SelfTwice == [heap |-> <<GObj(<<"x", "y">>, <<GRef(1), GRef(1)>>)>>, root |-> GRef(1)]

StringifyInputs ==
  {Nested(t, n, last) : t \in {"arr", "obj"}, n \in 0..MaxNesting, last \in {GStr("a"), GBigInt}}
  \cup {Nested(t, n, GRef(1)) : t \in {"arr", "obj"}, n \in 1..MaxNesting}
  \cup {Shared, SelfAndBigInt, SelfTwice}

InitStringify ==
  /\ dir = TRUE
  /\ files = NoFiles
  /\ clock = FirstInstant
  /\ before = NoFiles
  /\ op = "init"
  /\ arg \in StringifyInputs
  /\ ret = Pending
  /\ trace = <<>>
  /\ saved = NoCall
  /\ mem = NoMem

\* one attempt of safeStringify ran: it returns what the attempt gave, goes on
\* to the next attempt, or, after the third, throws
Attempted(name, r, last) ==
  /\ op' = "safeStringify"
  /\ trace' = Append(trace, Attempt(name, r))
  /\ ret' = IF r.ok THEN Serialized(r.out)
            ELSE IF last THEN SerializeFailed ELSE Pending
  /\ UNCHANGED <<dir, files, clock, before, arg, saved, mem>>

\* try { return JSON.stringify(obj, null, space) }
plainAttempt ==
  /\ op = "init"
  /\ Attempted("plain", PlainEncoding(arg.heap, arg.root), FALSE)

\* catch (error) { try { return JSON.stringify(obj, replacer, space) }
cycleSafeAttempt ==
  /\ op = "safeStringify"
  /\ Len(trace) = 1
  /\ ~trace[1].ok
  /\ Attempted("cycleSafe", CycleSafeEncoding(arg.heap, arg.root), FALSE)

\* catch (secondError) { try { processObject(obj); return chunks.join('') }
\* catch (thirdError) { throw }
manualAttempt ==
  /\ op = "safeStringify"
  /\ Len(trace) = 2
  /\ ~trace[2].ok
  /\ Attempted("manual", ManualEncoding(arg.heap, arg.root), TRUE)

NextStringify == plainAttempt \/ cycleSafeAttempt \/ manualAttempt

SpecStringify == InitStringify /\ [][NextStringify]_vars

(***************************************************************************)
(* C15  The attempts of safeStringify                                      *)
(***************************************************************************)
AttemptOrder == <<"plain", "cycleSafe", "manual">>

\* the number of brackets open before token i of a text
OpenBefore(out, i) ==
  Cardinality({j \in 1..(i - 1) : out[j].p \in {"[", "{"}})
  - Cardinality({j \in 1..(i - 1) : out[j].p \in {"]", "}"}})

IsMarker(tok) == tok = Tok("str", MaxDepthReached)

\* the attempts were made in order, each after the failure of the one before
InOrderAfterFailure ==
  /\ Len(trace) <= 3
  /\ \A i \in 1..Len(trace) :
       /\ trace[i].name = AttemptOrder[i]
       /\ i < Len(trace) => ~trace[i].ok

\* the plain attempt fails on cycles and bigints only, the cycle-breaking one
\* on bigints only
AttemptsFailWhenTheyMust ==
  /\ Len(trace) >= 1 => (trace[1].ok <=> ~(Cyclic(arg.heap, arg.root) \/ HasBigInt(arg.heap, arg.root)))
  /\ Len(trace) >= 2 => (trace[2].ok <=> ~HasBigInt(arg.heap, arg.root))

\* the text of the manual encoder opens at most MaxDepth + 1 brackets, and
\* puts its marker in the place of every member below them
MarkerBelowMaxDepth(out) ==
  \A i \in 1..Len(out) :
    /\ OpenBefore(out, i) <= MaxDepth + 1
    /\ IsMarker(out[i]) => OpenBefore(out, i) = MaxDepth + 1
    /\ (OpenBefore(out, i) = MaxDepth + 1 /\ out[i].p \in {"str", "[", "{", "null"} /\
          (i = Len(out) \/ out[i + 1].p # ":"))
       => IsMarker(out[i])

\* C15: safeStringify makes the plain attempt first, the cycle-breaking one
\* only after the plain one failed, the manual one only after both failed; it
\* returns the text of the first attempt that succeeds and throws only when
\* all three failed; the text of the manual encoder holds the marker
\* "[Max Depth Reached]" in the place of every member below depth 10 and
\* does not descend further.
FallbackChain ==
  op = "safeStringify"
  => /\ InOrderAfterFailure
     /\ AttemptsFailWhenTheyMust
     /\ ret.ok <=> Last(trace).ok
     /\ ret.ok => ret.out = Last(trace).out
     /\ ret.thrown <=> (Len(trace) = 3 /\ \A i \in 1..3 : ~trace[i].ok)
     /\ \A i \in 1..Len(trace) :
          (trace[i].name = "manual" /\ trace[i].ok) => MarkerBelowMaxDepth(trace[i].out)

\* reached: the first two attempts failed and the manual encoder returned a
\* text with the marker
FallbackChainWitness ==
  /\ op = "safeStringify"
  /\ Len(trace) = 3
  /\ ret.ok
  /\ \E i \in 1..Len(ret.out) : IsMarker(ret.out[i])

(***************************************************************************)
(* C19  A collection whose holder request fails                            *)
(***************************************************************************)
\* the slugs of a collections file, in its order
SlugsOf(name) ==
  LET collections == JSONParse(before[name]).items
  IN [i \in 1..Len(collections) |-> ObjGet(collections[i], "slug").s]

\* the holder records of the responses that were ok
ReportedHolders ==
  UNION {{mem.responses[slug].data[i] : i \in 1..Len(mem.responses[slug].data)} :
           slug \in {q \in DOMAIN mem.responses : mem.responses[q].status = "ok"}}

\* what the responses that were ok report for a wallet
ReportedFor(wallet) ==
  UNION {ItemSet(ObjGet(holder, "inscription_ids")) :
           holder \in {x \in ReportedHolders : ObjGet(x, "wallet").s = wallet}}

ReportedWallets == {ObjGet(holder, "wallet").s : holder \in ReportedHolders}

\* summarizeHolders made its requests, one of them answered with an error
\* status and none threw
SomeCollectionFailed ==
  /\ op = "summarizeHolders"
  /\ mem.requests # <<>>
  /\ \E i \in 1..Len(mem.requests) : mem.responses[mem.requests[i]].status = "failed"
  /\ \A i \in 1..Len(mem.requests) : mem.responses[mem.requests[i]].status # "thrown"

\* C19: when the holder request of a collection is answered with an error
\* status, summarizeHolders takes it as no holders and requests the remaining
\* collections: every collection of the file is requested once, in order, and
\* the map built from the requests holds, for each wallet, exactly what the
\* successful responses report; all of it is in the summary handed on.
FailedCollectionSkipped ==
  SomeCollectionFailed
  => /\ \E n \in KindFiles(before, CollectionsPrefix) : mem.requests = SlugsOf(n)
     /\ NoDuplicates(mem.requests)
     /\ KeySet(mem.steps[1]) = ReportedWallets
     /\ \A k \in ReportedWallets :
          /\ ItemSet(ObjGet(mem.steps[1], k)) = ReportedFor(k)
          /\ ReportedFor(k) \subseteq ItemSet(ObjGet(Last(mem.steps), k))

\* reached: the first collection failed, the second was requested and its
\* holders are in the summary
FailedCollectionSkippedWitness ==
  /\ SomeCollectionFailed
  /\ mem.requests = <<"s1", "s2">>
  /\ mem.responses["s1"].status = "failed"
  /\ mem.responses["s2"].status = "ok"
  /\ ret.ok
  /\ "w3" \in KeySet(arg)

(***************************************************************************)
(* The upstream API: fetchCollectionList, fetchBitmapList,                 *)
(* fetchHoldersPerCollection                                               *)
(***************************************************************************)
\* const count = 100
count == 100
\* await delay(1500)
DelayMs == 1500
\* The upstream answers at most MaxFullPages full pages to one call, then a
\* short page, an error status or no answer at all.
MaxFullPages == 2
\* The number of collections whose holders are requested.
MaxCollections == 2

MissingKeyError == "BEST_IN_SLOT API key is required"
NetworkError == "fetch failed"

\* What the upstream does with a request: a page of n items, an error status,
\* or a failure of the request itself (fetch rejects).
Page(n) == [status |-> "ok", n |-> n]
ErrorStatus == [status |-> "failed", n |-> 0]
NoAnswer == [status |-> "thrown", n |-> 0]
ShortLengths == {0, 1, count - 1}
Answers(full) ==
  {Page(n) : n \in ShortLengths} \cup {ErrorStatus, NoAnswer}
  \cup (IF full < MaxFullPages THEN {Page(count)} ELSE {})

\* payload.data of a page: the upstream's items offset + 1 .. offset + n
PageData(offset, n) == [i \in 1..n |-> offset + i]

\* The events at the upstream's side and on the timer: a request with the
\* answer it got, a delay that was awaited to its end.
Request(fn, offset, n, slug, response) ==
  [ev |-> "request", fn |-> fn, offset |-> offset, count |-> n, slug |-> slug,
   ms |-> 0, response |-> response]
Delay(fn, ms) ==
  [ev |-> "delay", fn |-> fn, offset |-> 0, count |-> 0, slug |-> "",
   ms |-> ms, response |-> NoAnswer]

\* The locals of a call: where it stands, offset, the list so far; with them
\* the number of full pages the upstream gave the call and the number of
\* holder calls of the run.
Locals(pc, offset, list, full, holderCalls) ==
  [pc |-> pc, offset |-> offset, list |-> list, full |-> full, holderCalls |-> holderCalls]

Got(data) == [ok |-> TRUE, data |-> data, err |-> ""]
Threw(msg) == [ok |-> FALSE, data |-> <<>>, err |-> msg]

\* if (!bestinslotApiKey) throw, left out
KeyUnchecked(key) == "fetch"

\* if (!bestinslotApiKey) throw new Error('BEST_IN_SLOT API key is required')
KeyChecked(key) == IF ~key THEN "thrown" ELSE "fetch"

\* offset += count, left out
SameOffset(offset) == offset

\* offset += count
NextOffset(offset) == offset + count

\* a loop body that asks again after an error status
PageHandledRetrying(local, response) ==
  IF response.status = "thrown" THEN [local EXCEPT !.pc = "thrown"]
  ELSE IF response.status # "ok" THEN local
  ELSE LET list == local.list \o PageData(local.offset, response.n)
       IN [local EXCEPT !.list = list,
                        !.full = IF response.n < count THEN @ ELSE @ + 1,
                        !.pc = IF response.n < count THEN "returned" ELSE "delay"]

\* The body of the while loop after `await fetch(url)`: break on a response
\* that is not ok, push the page, break on a short page; a rejected fetch
\* leaves the function.
PageHandled(local, response) ==
  IF response.status = "thrown" THEN [local EXCEPT !.pc = "thrown"]
  ELSE IF response.status # "ok" THEN [local EXCEPT !.pc = "returned"]
  ELSE LET list == local.list \o PageData(local.offset, response.n)
       IN [local EXCEPT !.list = list,
                        !.full = IF response.n < count THEN @ ELSE @ + 1,
                        !.pc = IF response.n < count THEN "returned" ELSE "delay"]

Finished == mem.pc \in {"returned", "thrown"}

\* The call of one of the two list functions: the locals are set, the key is
\* checked.
ListCalled(fn) ==
  /\ op' = fn
  /\ mem' = Locals(KeyChecked(arg.key), 0, <<>>, 0, mem.holderCalls)
  /\ ret' = IF KeyChecked(arg.key) = "thrown" THEN Threw(MissingKeyError) ELSE Got(<<>>)
  /\ UNCHANGED <<dir, files, clock, before, arg, trace, saved>>

\* One turn of the while loop up to its break or its delay.
PageFetched(fn) ==
  /\ op = fn
  /\ mem.pc = "fetch"
  /\ \E response \in Answers(mem.full) :
       LET local == PageHandled(mem, response)
       IN /\ mem' = local
          /\ ret' = IF local.pc = "thrown" THEN Threw(NetworkError) ELSE Got(local.list)
          /\ trace' = Append(trace, Request(fn, mem.offset, count, "", response))
  /\ UNCHANGED <<dir, files, clock, before, arg, op, saved>>

\* await delay(1500); offset += count
ListDelayed(fn) ==
  /\ op = fn
  /\ mem.pc = "delay"
  /\ mem' = [mem EXCEPT !.pc = "fetch", !.offset = NextOffset(@)]
  /\ trace' = Append(trace, Delay(fn, DelayMs))
  /\ UNCHANGED <<dir, files, clock, before, arg, op, ret, saved>>

\* runFullPipeline and runDataFetchingOnly call fetchCollectionList first
fetchCollectionList ==
  /\ op = "init"
  /\ ListCalled("fetchCollectionList")

collectionPageFetched == PageFetched("fetchCollectionList")

collectionsDelayed == ListDelayed("fetchCollectionList")

\* fetchBitmapList is called after fetchCollectionList returned, or first
fetchBitmapList ==
  /\ \/ op = "init"
     \/ op = "fetchCollectionList" /\ mem.pc = "returned"
  /\ ListCalled("fetchBitmapList")

bitmapPageFetched == PageFetched("fetchBitmapList")

bitmapsDelayed == ListDelayed("fetchBitmapList")

\* fetchHoldersPerCollection(slug) is called by summarizeHolders, once per
\* collection: first (runAnalysisOnly), after fetchBitmapList, or after the
\* call for the collection before.
holdersCalled ==
  /\ \/ op = "init"
     \/ op = "fetchBitmapList" /\ mem.pc = "returned"
     \/ op = "fetchHoldersPerCollection" /\ mem.pc = "returned"
  /\ mem.holderCalls < MaxCollections
  /\ op' = "fetchHoldersPerCollection"
  /\ mem' = Locals(KeyChecked(arg.key), 0, <<>>, 0, mem.holderCalls + 1)
  /\ ret' = IF KeyChecked(arg.key) = "thrown" THEN Threw(MissingKeyError) ELSE Got(<<>>)
  /\ UNCHANGED <<dir, files, clock, before, arg, trace, saved>>

\* await fetch(url): return [] on a response that is not ok, else payload.data
\* is held until the delay is over
holdersFetched ==
  /\ op = "fetchHoldersPerCollection"
  /\ mem.pc = "fetch"
  /\ \E response \in {Page(1), ErrorStatus, NoAnswer} :
       /\ mem' = [mem EXCEPT !.pc = IF response.status = "thrown" THEN "thrown"
                                    ELSE IF response.status # "ok" THEN "returned"
                                    ELSE "delay",
                             !.list = PageData(0, response.n)]
       /\ ret' = IF response.status = "thrown" THEN Threw(NetworkError) ELSE Got(<<>>)
       /\ trace' = Append(trace, Request(op, 0, 0, NumberToString(mem.holderCalls),
                                         response))
  /\ UNCHANGED <<dir, files, clock, before, arg, op, saved>>

\* await delay(1500); return holdersList
holdersDelayed ==
  /\ op = "fetchHoldersPerCollection"
  /\ mem.pc = "delay"
  /\ mem' = [mem EXCEPT !.pc = "returned"]
  /\ ret' = Got(mem.list)
  /\ trace' = Append(trace, Delay(op, DelayMs))
  /\ UNCHANGED <<dir, files, clock, before, arg, op, saved>>

\* A run: the environment with or without BEST_IN_SLOT, no call made yet.
InitApi ==
  /\ dir = TRUE
  /\ files = NoFiles
  /\ clock = FirstInstant
  /\ before = NoFiles
  /\ op = "init"
  /\ arg \in {[key |-> TRUE], [key |-> FALSE]}
  /\ ret = Got(<<>>)
  /\ trace = <<>>
  /\ saved = NoCall
  /\ mem = Locals("returned", 0, <<>>, 0, 0)

NextApi ==
  \/ fetchCollectionList
  \/ collectionPageFetched
  \/ collectionsDelayed
  \/ fetchBitmapList
  \/ bitmapPageFetched
  \/ bitmapsDelayed
  \/ holdersCalled
  \/ holdersFetched
  \/ holdersDelayed

SpecApi == InitApi /\ [][NextApi]_vars

\* Every await of a call settles: the call goes on until it returns or throws.
SpecApiFair == SpecApi /\ WF_vars(NextApi)

(***************************************************************************)
(* C16  Missing API key                                                    *)
(***************************************************************************)
ApiFunctions == {"fetchCollectionList", "fetchBitmapList", "fetchHoldersPerCollection"}

\* C16: with BEST_IN_SLOT not set, each of fetchCollectionList,
\* fetchBitmapList and fetchHoldersPerCollection throws 'BEST_IN_SLOT API key
\* is required' and no request has been issued.
MissingKeyThrows ==
  (op \in ApiFunctions /\ ~arg.key)
  => /\ mem.pc = "thrown"
     /\ ret = Threw(MissingKeyError)
     /\ trace = <<>>

\* reached: fetchBitmapList called without the key
MissingKeyThrowsWitness ==
  /\ op = "fetchBitmapList"
  /\ ~arg.key
  /\ ~ret.ok

(***************************************************************************)
(* C17  Pagination                                                         *)
(***************************************************************************)
ListFunctions == {"fetchCollectionList", "fetchBitmapList"}

\* the requests of the call that is running or ran last
Requests == SelectSeq(trace, LAMBDA e : e.ev = "request" /\ e.fn = op)

\* the items 1 .. n, as the upstream numbers them
Items(n) == [j \in 1..n |-> j]

\* the requests ask for the offsets 0, 100, 200, ... with count 100, each one
\* after a full page; a list returned holds the items of all pages received,
\* the short one included, in order
PagesInOrder ==
  op \in ListFunctions
  => /\ \A i \in 1..Len(Requests) :
          /\ Requests[i].offset = (i - 1) * 100
          /\ Requests[i].count = 100
          /\ i < Len(Requests) => Requests[i].response = Page(100)
     /\ (mem.pc = "returned" /\ Last(Requests).response.status = "ok")
        => /\ Last(Requests).response.n < 100
           /\ ret = Got(Items((Len(Requests) - 1) * 100 + Last(Requests).response.n))

\* C17: fetchCollectionList and fetchBitmapList request the offsets 0, 100,
\* 200, ... with count 100, stop at the first page of fewer than 100 items
\* and return the items of all pages received, that page included, in the
\* order of the requests; with an upstream that does not answer full pages
\* for ever, every call comes to its end.
Pagination ==
  /\ []PagesInOrder
  /\ \A fn \in ListFunctions : (op = fn) ~> (op = fn /\ Finished)

\* reached: two full pages and a page of one item were received and returned
PaginationWitness ==
  /\ op = "fetchCollectionList"
  /\ mem.pc = "returned"
  /\ Len(Requests) = 3
  /\ Last(Requests).response = Page(1)
  /\ Len(ret.data) = 201

(***************************************************************************)
(* C18  An error status for a page                                         *)
(***************************************************************************)
\* C18: when a page request of fetchCollectionList or fetchBitmapList is
\* answered with an error status, it is the last request of the call (no
\* retry, no further page), and the call returns, without throwing, the
\* items of the pages received before: none when the first page failed.
ErrorStatusEndsList ==
  op \in ListFunctions
  => \A i \in 1..Len(Requests) :
       Requests[i].response = ErrorStatus
       => /\ i = Len(Requests)
          /\ mem.pc = "returned"
          /\ ret = Got(Items((i - 1) * 100))

\* reached: the third page of fetchBitmapList failed after two full pages
ErrorStatusEndsListWitness ==
  /\ op = "fetchBitmapList"
  /\ Len(Requests) = 3
  /\ Requests[3].response = ErrorStatus
  /\ Len(ret.data) = 200

(***************************************************************************)
(* C20  Delay between requests                                             *)
(***************************************************************************)
\* C20: in a run, after every request a delay of 1.5 s is awaited before the
\* next request is issued: no two requests follow each other without a
\* completed delay between them.
DelayBetweenRequests ==
  \A i \in 1..(Len(trace) - 1) :
    trace[i].ev = "request" => (trace[i + 1].ev = "delay" /\ trace[i + 1].ms = 1500)

(***************************************************************************)
(* C22  Files that were there before                                       *)
(***************************************************************************)
IsWriteCall == op \in {"saveCollectionsToFile", "saveBitmapListToFile",
                       "saveHoldersSummaryToFile", "saveFilteredHoldersSummaryToFile"}

WriteOperations ==
  {"saveCollectionsToFile", "saveBitmapListToFile", "saveHoldersSummaryToFile",
   "saveFilteredHoldersSummaryToFile", "getLatestHoldersSummaryFile"}

\* C22: no write operation (the four writers and the merge of
\* getLatestHoldersSummaryFile) changes or removes a file that was in the data
\* directory when the operation began, and no file a writer wrote is changed
\* or removed by a later reader.
SnapshotsUntouched ==
  /\ op \in WriteOperations
     => \A n \in DOMAIN before : n \in DOMAIN files /\ files[n] = before[n]
  /\ (saved # NoCall /\ ~IsWriteCall)
     => \A i \in 1..Len(saved.trace) :
          saved.trace[i].ok
          => /\ saved.trace[i].name \in DOMAIN files
             /\ files[saved.trace[i].name] = before[saved.trace[i].name]

(***************************************************************************)
(* C27  Chunks of other snapshots                                          *)
(***************************************************************************)
\* the chunk files that were in the directory and start with the text of the
\* selected file before '-chunk'
OwnChunks ==
  {n \in DOMAIN before :
     /\ StartsWith(n, SplitFirst(ret.selected, DashChunk))
     /\ Includes(n, ChunkWord)}

\* the chunk files of holder summaries with another text before '-chunk'
ForeignChunks ==
  {n \in KindFiles(before, HolderSummaryPrefix) : Includes(n, ChunkWord)} \ OwnChunks

\* the mapping getLatestHoldersSummaryFile merged and wrote
MergedMapping == JSONParse(files[ret.path])

\* C27: the mapping merged by getLatestHoldersSummaryFile holds only wallets,
\* each with a list, read from the chunk files whose name starts with the
\* text before '-chunk' of the latest file; the chunk files of another holder
\* summary give it no wallet and no identifier.
OnlyOwnChunksMerged ==
  MergedNow
  => \A k \in KeySet(MergedMapping) :
       \E n \in OwnChunks :
         /\ ObjHas(JSONParse(before[n]), k)
         /\ ObjGet(JSONParse(before[n]), k) = ObjGet(MergedMapping, k)

\* reached: a merge beside chunk files of an earlier timestamp, whose wallets
\* are not in the merged mapping
OnlyOwnChunksMergedWitness ==
  /\ MergedNow
  /\ \E n \in ForeignChunks :
       /\ KeySet(JSONParse(before[n])) # {}
       /\ KeySet(JSONParse(before[n])) \cap KeySet(MergedMapping) = {}

(***************************************************************************)
(* C25  The last chunk wins                                                *)
(***************************************************************************)
\* the chunk files merged are numbered, each with its own number (a file
\* without a number counts as 0)
ChunksNumbered ==
  \A m, n \in OwnChunks :
    /\ ~ChunkNumber(n).nan
    /\ m # n => ChunkNumber(m).val # ChunkNumber(n).val

\* the chunk files that define the wallet k
Defining(k) == {n \in OwnChunks : ObjHas(JSONParse(before[n]), k)}

\* C25: when several chunk files of the merged snapshot define a wallet, the
\* merged mapping gives the wallet the list of the chunk with the highest
\* number, as it is; a wallet of one chunk keeps the list of that chunk.
LastChunkWins ==
  (MergedNow /\ ChunksNumbered)
  => /\ KeySet(MergedMapping) = UNION {KeySet(JSONParse(before[n])) : n \in OwnChunks}
     /\ \A k \in KeySet(MergedMapping) :
          \E n \in Defining(k) :
            /\ \A m \in Defining(k) : ChunkNumber(m).val <= ChunkNumber(n).val
            /\ ObjGet(MergedMapping, k) = ObjGet(JSONParse(before[n]), k)

\* reached: three chunks give a wallet three different lists
LastChunkWinsWitness ==
  /\ MergedNow
  /\ ChunksNumbered
  /\ \E k \in KeySet(MergedMapping) :
       /\ Cardinality(Defining(k)) = 3
       /\ Cardinality({ObjGet(JSONParse(before[n]), k) : n \in Defining(k)}) = 3

(***************************************************************************)
(* C24  The order in which the chunks are read                             *)
(***************************************************************************)
\* the number of a chunk file, 0 when it has none or one that is no number
IndexOrZero(name) == IF ChunkNumber(name).nan THEN 0 ELSE ChunkNumber(name).val

\* the chunk files in ascending order of that number
ByIndexOrZero(names) ==
  CHOOSE s \in Perms(names) :
    \A i \in 1..(Len(s) - 1) : IndexOrZero(s[i]) <= IndexOrZero(s[i + 1])

\* C24: getLatestHoldersSummaryFile reads the chunk files of the selected
\* snapshot in ascending order of the number after 'chunk', a chunk file
\* without a number or with one that cannot be parsed counting as 0 and read
\* first, and throws no error for it: the merged mapping is the one of the
\* chunks read in that order.
ChunksReadByIndexOrZero ==
  MergedNow
  => SameMapping(MergedMapping, MergeChunks(ByIndexOrZero(OwnChunks), before))

InputNotMutatedThrown ==
  /\ IsHoldersWriter
  /\ ~ret.ok
  /\ arg = DirtyHolders

(***************************************************************************)
(* C26  The chunks partition the cleaned map                               *)
(***************************************************************************)
\* ceil(w / 5), by its definition
CeilFifth(w) == CHOOSE n \in 0..w : 5 * n >= w /\ 5 * (n - 1) < w

\* the elements of a sequence
Elements(s) == {s[i] : i \in 1..Len(s)}

\* s is a run of consecutive elements of keys
IsSlice(s, keys) ==
  \E a \in 1..Len(keys) :
    /\ a + Len(s) - 1 <= Len(keys)
    /\ s = SubSeq(keys, a, a + Len(s) - 1)

\* C26: in a call of saveHoldersSummaryToFile that splits a cleaned map of W
\* wallets, the chunks attempted (written or failed) are numbered 1..k with
\* k <= 5, each is a non-empty run of at most ceil(W / 5) consecutive keys
\* of the cleaned map in its insertion order, no wallet is in two chunks and
\* together they hold exactly the wallets of the cleaned map; a chunk that
\* was written holds in its file the keys it was built with.
ShardPartition ==
  SplitNow
  => LET keys == ObjKeys(CleanHolders(saved.arg).cleaned)
         k == Len(trace)
     IN /\ k <= 5
        /\ \A i \in 1..k :
             /\ EndsWith(trace[i].name, DashChunk \o NumberToString(i) \o JsonExt)
             /\ trace[i].wallets # <<>>
             /\ Len(trace[i].wallets) <= CeilFifth(Len(keys))
             /\ IsSlice(trace[i].wallets, keys)
             /\ trace[i].ok => ObjKeys(JSONParse(files[trace[i].name])) = trace[i].wallets
        /\ \A i, j \in 1..k :
             i # j => Elements(trace[i].wallets) \cap Elements(trace[j].wallets) = {}
        /\ UNION {Elements(trace[i].wallets) : i \in 1..k} = Elements(keys)

\* reached: a split into chunks of two wallets, one of them failed
ShardPartitionWitness ==
  /\ SplitNow
  /\ Len(trace) = 3
  /\ \A i \in 1..3 : Len(trace[i].wallets) = 2
  /\ ~AllWritten(trace)
  /\ \E i \in 1..3 : trace[i].ok

(***************************************************************************)
(* C29  The second cleaning                                                *)
(***************************************************************************)
\* the holder summary filterHolders read, and the FinalResult file it wrote
SummaryRead == JSONParse(files[mem.path])
FinalResultWritten == JSONParse(files[trace[1].name])

\* filterHolders wrote a FinalResult file from a holder summary as
\* saveHoldersSummaryToFile leaves it: cleaning it again changes nothing.
\* (Every holder summary of these directories was written by
\* saveHoldersSummaryToFile, as one file or as chunks merged by the reader.)
FilteredFromCleaned ==
  /\ op = "filterHolders"
  /\ ret.ok
  /\ trace # <<>>
  /\ CleanHolders(SummaryRead).cleaned = SummaryRead

PipelineOrder ==
  <<"fetchCollectionList", "saveCollectionsToFile", "fetchBitmapList",
    "saveBitmapListToFile", "summarizeHolders", "filterHolders",
    "getLatestFinalResultFile">>

StepIndex(step) == CHOOSE i \in 1..Len(PipelineOrder) : PipelineOrder[i] = step

\* a pipeline whose catch block lets the run go on with the next statement
AfterIgnoringErrors(step, ok) ==
  IF StepIndex(step) = Len(PipelineOrder) THEN "resolved"
  ELSE PipelineOrder[StepIndex(step) + 1]

\* Where runFullPipeline is after an awaited call settled: at the next
\* statement of the try block, at its end (the promise resolves), or in the
\* catch block, which logs the error and throws it again (the promise rejects).
After(step, ok) ==
  IF ~ok THEN "rejected"
  ELSE IF StepIndex(step) = Len(PipelineOrder) THEN "resolved"
  ELSE PipelineOrder[StepIndex(step) + 1]

\* What a run of runFullPipeline holds: the call it awaits next (pc), the
\* calls that settled (log), the constants collections and bitmapList, the
\* error it rejected with; and, for the properties, the files the directory
\* held when the run began (pre), the snapshot files summarizeHolders read and
\* the holder summary files filterHolders consumed.
NewRun(fs) ==
  [pc |-> PipelineOrder[1], log |-> <<>>, collections |-> Null, bitmapList |-> Null,
   thrown |-> "", pre |-> fs, readCollections |-> NoPath, readBitmapList |-> NoPath,
   consumed |-> {}]

\* the awaited call `step` settled
Settled(run, step, ok, err) ==
  [run EXCEPT !.pc = After(step, ok),
              !.log = Append(@, [step |-> step, ok |-> ok]),
              !.thrown = IF ok THEN @ ELSE err]

\* const collections = await fetchCollectionList(): the list of the pages
\* received (empty when the first page failed), or the error thrown
Stage1Fetch(result) ==
  /\ mem.pc = "fetchCollectionList"
  /\ op' = "fetchCollectionList"
  /\ arg' = Null
  /\ ret' = IF result.ok THEN Returned(NoPath, NoPath, 0) ELSE Thrown(result.err)
  /\ trace' = <<>>
  /\ before' = files
  /\ mem' = [Settled(mem, "fetchCollectionList", result.ok, result.err)
               EXCEPT !.collections = IF result.ok THEN result.data ELSE @]
  /\ UNCHANGED <<dir, files, clock, saved>>

\* an awaited call of a single-file writer in the pipeline
StageSave(step, value, r, t) ==
  /\ mem.pc = step
  /\ op' = step
  /\ arg' = value
  /\ ret' = r.ret
  /\ trace' = r.trace
  /\ before' = files
  /\ files' = r.files
  /\ dir' = TRUE
  /\ clock' = t
  /\ mem' = Settled(mem, step, r.ret.ok, r.ret.err)
  /\ UNCHANGED saved

\* await saveCollectionsToFile(collections)
Stage1Save(t, failed) ==
  StageSave("saveCollectionsToFile", mem.collections,
            SaveCollections(mem.collections, t, failed, files), t)

\* const bitmapList = await fetchBitmapList()
Stage15Fetch(result) ==
  /\ mem.pc = "fetchBitmapList"
  /\ op' = "fetchBitmapList"
  /\ arg' = Null
  /\ ret' = IF result.ok THEN Returned(NoPath, NoPath, 0) ELSE Thrown(result.err)
  /\ trace' = <<>>
  /\ before' = files
  /\ mem' = [Settled(mem, "fetchBitmapList", result.ok, result.err)
               EXCEPT !.bitmapList = IF result.ok THEN result.data ELSE @]
  /\ UNCHANGED <<dir, files, clock, saved>>

\* await saveBitmapListToFile(bitmapList)
Stage15Save(t, failed) ==
  StageSave("saveBitmapListToFile", mem.bitmapList,
            SaveBitmapList(mem.bitmapList, t, failed, files), t)

\* await summarizeHolders(): the latest collections and bitmapList files are
\* read, the holder map is built and handed to saveHoldersSummaryToFile
Stage2(l1, l2, responses) ==
  /\ mem.pc = "summarizeHolders"
  /\ op' = "summarizeHolders"
  /\ before' = files
  /\ UNCHANGED dir
  /\ \E built \in {Summarize(l1, l2, responses)} :
     \E c \in {LatestCollections(l1)} :
     \E b \in {LatestBitmapList(l2)} :
     \E run \in {[mem EXCEPT !.readCollections = IF dir THEN c.path ELSE NoPath,
                             !.readBitmapList = IF dir /\ c.ok THEN b.path ELSE NoPath]} :
       IF ~built.ret.ok
         THEN /\ ret' = built.ret
              /\ files' = built.files
              /\ arg' = Null
              /\ trace' = <<>>
              /\ UNCHANGED clock
              /\ saved' = [op |-> "summarizeHolders", arg |-> Null, ret |-> built.ret,
                           trace |-> <<>>, before |-> files]
              /\ mem' = Settled(run, "summarizeHolders", FALSE, built.ret.err)
         ELSE \E holdersSummary \in {Last(built.mem.steps)} :
              \E reads \in {ClockReads(holdersSummary)} :
              \E readings \in Readings(reads) :
              \E fails \in FailSets(reads) :
              \E r \in {SaveHoldersSummary(holdersSummary, readings, fails, built.files)} :
                /\ ret' = r.ret
                /\ files' = r.files
                /\ arg' = holdersSummary
                /\ trace' = r.trace
                /\ clock' = readings[Len(readings)]
                /\ saved' = [op |-> "summarizeHolders", arg |-> holdersSummary,
                             ret |-> r.ret, trace |-> r.trace, before |-> files]
                /\ mem' = Settled(run, "summarizeHolders", r.ret.ok, r.ret.err)

\* the holder summary files a call of getLatestHoldersSummaryFile takes its
\* result from: the latest file, or the chunk files merged
Consumed(listing, h) ==
  IF ~h.ret.ok THEN {}
  ELSE IF Includes(h.ret.selected, ChunkWord)
    THEN Elements(ChunkFilesOf(listing, SplitFirst(h.ret.selected, DashChunk)))
  ELSE {h.ret.selected}

\* await filterHolders(): the latest holder summary is read, the wallets of
\* 10 identifiers and more are handed to saveFilteredHoldersSummaryToFile
Stage3(listing, t, failed) ==
  /\ mem.pc = "filterHolders"
  /\ op' = "filterHolders"
  /\ before' = files
  /\ UNCHANGED <<dir, saved>>
  /\ \E h \in {LatestHoldersSummary(listing, files)} :
     \E run \in {[mem EXCEPT !.consumed = IF dir THEN Consumed(listing, h) ELSE {}]} :
       IF ~dir \/ ~h.ret.ok
         THEN /\ ret' = IF ~dir THEN Thrown(NoDirectoryError) ELSE h.ret
              /\ files' = IF ~dir THEN files ELSE h.files
              /\ arg' = Null
              /\ trace' = <<>>
              /\ UNCHANGED clock
              /\ mem' = Settled(run, "filterHolders", FALSE,
                                IF ~dir THEN NoDirectoryError ELSE h.ret.err)
         ELSE \E holdersSummary \in {JSONParse(h.files[h.ret.path])} :
              \E filteredHoldersSummary \in {FilterWallets(holdersSummary)} :
              \E r \in {SaveFiltered(filteredHoldersSummary, t, failed, h.files)} :
                /\ ret' = r.ret
                /\ files' = r.files
                /\ arg' = filteredHoldersSummary
                /\ trace' = r.trace
                /\ clock' = t
                /\ mem' = Settled(run, "filterHolders", r.ret.ok, r.ret.err)

\* const qualifiedHolderCount = await getLatestFinalResultFile()
Stage4(listing) ==
  /\ mem.pc = "getLatestFinalResultFile"
  /\ op' = "getLatestFinalResultFile"
  /\ arg' = Null
  /\ trace' = <<>>
  /\ before' = files
  /\ \E r \in {IF dir THEN LatestFinalResult(listing, files)
                ELSE Thrown(NoDirectoryError)} :
       /\ ret' = r
       /\ mem' = Settled(mem, "getLatestFinalResultFile", r.ok, r.err)
  /\ UNCHANGED <<dir, files, clock, saved>>

\* What the bulk fetches come to: the list of the pages received, empty when
\* the first page failed, or an error thrown
CollectionFetches == {Got(Arr(<<>>)), Got(TwoSlugs), Threw(NetworkError)}
BitmapFetches == {Got(Arr(<<>>)), Got(Arr(<<Bitmap("w5", Arr(Ids(1)))>>)), Threw(NetworkError)}

\* The answers of the holders API in a run of the pipeline: four wallets, one
\* of them with 10 identifiers
TenAndOne == Fetched(<<Holder("w1", Ids(10)), Holder("w2", Ids(1))>>)
OneAndOne == Fetched(<<Holder("w3", Ids(1)), Holder("w4", IdsFrom(2, 1))>>)
PipelineResponses ==
  {Responses(TenAndOne, OneAndOne), Responses(NotOk, OneAndOne),
   Responses(TenAndOne, FetchThrown)}

\* The directories a run of the pipeline may find: none, an empty one, and
\* the snapshots of a run of the millisecond before
EarlierHolders == Obj(<<Wallet("w8", Ids(10)), Wallet("w9", Ids(1))>>)
EarlierRun ==
  Directory(
    SaveFiltered(FilterWallets(EarlierHolders), Earlier, FALSE,
      SaveHoldersSummary(EarlierHolders, <<Earlier>>, {},
        SaveBitmapList(Arr(<<Bitmap("w9", Arr(Ids(1)))>>), Earlier, FALSE,
          SaveCollections(Arr(<<Collection("s1")>>), Earlier, FALSE,
                          NoFiles).files).files).files).files,
    T0)
PipelineDirectories == {NoDirectory, EmptyDirectory, EarlierRun}

InitPipeline ==
  /\ \E d \in PipelineDirectories :
       /\ dir = d.dir
       /\ files = d.files
       /\ clock = d.clock
       /\ before = d.files
       /\ mem = NewRun(d.files)
  /\ op = "init"
  /\ arg = Null
  /\ ret = Returned(NoPath, NoPath, 0)
  /\ trace = <<>>
  /\ saved = NoCall

NextPipeline ==
  \/ \E result \in CollectionFetches : Stage1Fetch(result)
  \/ \E t \in clock..LastInstant : \E failed \in BOOLEAN : Stage1Save(t, failed)
  \/ \E result \in BitmapFetches : Stage15Fetch(result)
  \/ \E t \in clock..LastInstant : \E failed \in BOOLEAN : Stage15Save(t, failed)
  \/ \E l1, l2 \in Listings(DOMAIN files) : \E responses \in PipelineResponses :
       Stage2(l1, l2, responses)
  \/ \E l \in Listings(DOMAIN files) : \E t \in clock..LastInstant :
       \E failed \in BOOLEAN : Stage3(l, t, failed)
  \/ \E l \in Listings(DOMAIN files) : Stage4(l)

SpecPipeline == InitPipeline /\ [][NextPipeline]_vars

(***************************************************************************)
(* C21  Order of the pipeline                                              *)
(***************************************************************************)
\* the calls of the run that settled, and those among them that threw
Log == mem.log
ThrownSteps == {i \in 1..Len(Log) : ~Log[i].ok}

\* the calls made are a beginning of the order of the statements, a call that
\* threw is the last, and the run is where the last call left it
CallsInOrder ==
  /\ Len(Log) <= Len(PipelineOrder)
  /\ \A i \in 1..Len(Log) : Log[i].step = PipelineOrder[i]
  /\ \A i \in ThrownSteps : i = Len(Log)
  /\ Len(Log) > 0 => op = Log[Len(Log)].step
  /\ IF ThrownSteps # {}
       THEN /\ mem.pc = "rejected"
            /\ ~ret.ok
            /\ mem.thrown = ret.err
     ELSE IF Len(Log) = Len(PipelineOrder) THEN mem.pc = "resolved"
     ELSE mem.pc = PipelineOrder[Len(Log) + 1]

\* a step of the run is one call, the one awaited, from its start to its end
OneCallAtATime ==
  /\ mem.pc \notin {"resolved", "rejected"}
  /\ mem'.log = Append(mem.log, [step |-> mem.pc, ok |-> ret'.ok])

\* C21: the calls runFullPipeline makes are, in this order and without a
\* gap, a beginning of: fetch collections, save collections, fetch bitmaps,
\* save bitmaps, summarizeHolders, filterHolders, getLatestFinalResultFile;
\* each call starts when the one before it has resolved; a call that threw is
\* the last call made, and the run is rejected with its error; the run
\* resolves only after all seven resolved.
PipelineInOrder == []CallsInOrder /\ [][OneCallAtATime]_vars

\* reached: summarizeHolders threw after four calls that resolved, and the
\* run was rejected with its error
PipelineInOrderWitness ==
  /\ Len(Log) = 5
  /\ \A i \in 1..4 : Log[i].ok
  /\ ~Log[5].ok
  /\ mem.pc = "rejected"
  /\ mem.thrown = FetchError

\* reached: the seven calls resolved
PipelineResolved ==
  /\ mem.pc = "resolved"
  /\ Len(Log) = 7

(***************************************************************************)
(* C28  What a run consumes                                                *)
(***************************************************************************)
\* the files the summarizeHolders of this run wrote
SummaryFilesWritten ==
  {saved.trace[i].name : i \in {j \in 1..Len(saved.trace) : saved.trace[j].ok}}

\* summarizeHolders read the collections and the bitmapList file this run
\* saved, with the lists this run fetched
FetchedSnapshotsConsumed ==
  /\ (Len(Log) >= 5 /\ mem.readCollections # NoPath)
     => /\ mem.readCollections \notin DOMAIN mem.pre
        /\ JSONParse(files[mem.readCollections]) = mem.collections
  /\ (Len(Log) >= 5 /\ mem.readBitmapList # NoPath)
     => /\ mem.readBitmapList \notin DOMAIN mem.pre
        /\ JSONParse(files[mem.readBitmapList]) = mem.bitmapList

\* filterHolders took its holder summary from the files the summarizeHolders
\* of this run wrote, all of them and no other
SummaryConsumed ==
  (Len(Log) >= 6 /\ mem.consumed # {}) => mem.consumed = SummaryFilesWritten

\* C28: in a run of runFullPipeline on a directory whose files carry earlier
\* timestamps, with a clock that does not go back, summarizeHolders reads the
\* collections and bitmapList files saved in this run (an empty list
\* included) and filterHolders reads the holder summary the summarizeHolders
\* of this run wrote.
SameRunConsumption == FetchedSnapshotsConsumed /\ SummaryConsumed

\* the chunk files of the run carry one timestamp
OneTimestamp ==
  \A m, n \in SummaryFilesWritten :
    Stamp(m, HolderSummaryPrefix) = Stamp(n, HolderSummaryPrefix)

\* with the chunk files of one timestamp the summary consumed is the one written
SummaryConsumedUntorn == OneTimestamp => SummaryConsumed

\* reached: the run saved empty lists over the snapshots of an earlier run and
\* summarizeHolders read them
EmptySnapshotsConsumed ==
  /\ Len(Log) >= 5
  /\ DOMAIN mem.pre # {}
  /\ mem.collections = Arr(<<>>)
  /\ mem.bitmapList = Arr(<<>>)
  /\ mem.readCollections \notin DOMAIN mem.pre
  /\ mem.readBitmapList \notin DOMAIN mem.pre

====
